---- MODULE Spec2Model ----
(***************************************************************************)
(* Node.Run of package core: the three-phase execution of a BaseNode       *)
(* (Prep, Exec with retry and fallback, Post) with its worker pool.        *)
(* Two versions of Node.Run are in the repository: the one with the        *)
(* sequential single-worker path and executeWithRetry (variant "part_001") *)
(* and the one of src/core/node.go, which always uses the worker pool      *)
(* (variant "core_node").                                                  *)
(***************************************************************************)
EXTENDS Integers, Sequences, FiniteSets, TLC

\* ---------------------------------------------------------------- bounds
MaxItems == 2
MaxRoutinesArg == 2
MaxRetriesArg == 2

\* ---------------------------------------------------------------- values
ItemVals == {"a", "b"}

\* Arguments given to NewNode, SetMaxRetries and SetMaxRoutines: any int,
\* negative ones included.
RetriesArgs == (-1)..MaxRetriesArg
RoutinesArgs == (-1)..MaxRoutinesArg

\* Goroutine 0 is the goroutine that called Run; 1..MaxRoutinesArg are the
\* goroutines started by `go worker(wg)`.
Main == 0
Workers == 1..MaxRoutinesArg
Procs == {Main} \cup Workers

ActionContinue == "continue"
ActionSuccess == "success"
ActionFailure == "failure"
ActionRetry == "retry"
ActionDefault == "default"
Actions == {ActionContinue, ActionSuccess, ActionFailure, ActionRetry, ActionDefault}
NoAction == "none"

\* An ExecResults or error value: kind "zero" is the zero value of
\* ExecResults, "nil" the nil error, "ok" a value returned by Exec, "err" an
\* error returned by Exec and "fb" a value returned by ExecFallback.
Zero == [kind |-> "zero", item |-> "none", n |-> 0]
NoErr == [kind |-> "nil", item |-> "none", n |-> 0]

\* The BaseNode under the Node. Exec(item) succeeds with a value made from
\* the item, or fails; a failing call of a flaky BaseNode returns an error
\* that names the call (the k-th call on that item of the run), a failing
\* call of a pure BaseNode returns an error made from the item alone.
ExecValue(item) == [kind |-> "ok", item |-> item, n |-> 0]
ExecError(item, k) == [kind |-> "err", item |-> item, n |-> k]
\* ExecFallback(err): a value made from the error it was given.
ExecFallback(err) == [kind |-> "fb", item |-> err.item, n |-> err.n]

\* ------------------------------------------------------- pure code pieces
\* createNode / SetMaxRoutines: if maxRoutines < 1 { maxRoutines = 1 }
MutClampZero(m) == IF m < 0 THEN 1 ELSE m
ClampRoutines(m) == IF m < 1 THEN 1 ELSE m

\* Run: numWorkers := n.routines; if numWorkers > len(prepRes) { numWorkers = len(prepRes) }
MutNumWorkersPerItem(r, n) == n
NumWorkers(r, n) == IF r > n THEN n ELSE r

\* execResult, err = n.node.Exec(input): err holds the latest error
MutKeepFirstErr(old, new) == IF old = NoErr THEN new ELSE old
AssignErr(old, new) == new

\* if err == nil: the attempt succeeded and the retry loop is left
MutIsNilNever(err) == FALSE
IsNil(err) == err = NoErr

\* if len(prepRes) == 0 { return n.node.Post(state, prepRes) }
MutEmptyPrepNever(items) == FALSE
EmptyPrep(items) == Len(items) = 0

\* if numWorkers == 1 (part_001 only; core_node has no sequential path)
MutSinglePathNever(v, w) == FALSE
SinglePath(v, w) == v = "part_001" /\ w = 1

VARIABLES
    variant,      \* which Node.Run: "part_001" or "core_node"
    maxRetries,   \* Node.maxRetries
    routines,     \* Node.routines
    routinesArg,  \* history: the argument of the call that set routines
    flaky,        \* BaseNode: Exec may fail or succeed on any call
    failSet,      \* BaseNode (not flaky): the items Exec fails on
    pc,           \* position of the goroutine that called Run
    prepRes,      \* Run's prepRes
    execResults,  \* Run's execResults
    numWorkers,   \* Run's numWorkers
    queue,        \* the buffered channel prepResults (positions, in order)
    closed,       \* close(prepResults) has happened
    wgCount,      \* the WaitGroup's counter
    idx,          \* the range index of Run's loop over prepRes
    frame,        \* per goroutine: where it is and its locals
    execCalls,    \* history: Exec invocations per position
    fbCalls,      \* history: ExecFallback invocations per position
    fbArg,        \* history: the error ExecFallback was called with
    lastErr,      \* history: the error of the latest failed Exec
    okAt,         \* history: execCalls at the successful Exec (0: none yet)
    writes,       \* history: writes to each slot of execResults
    ran,          \* history: the set of goroutines started by Run
    prepCalls,    \* history: Prep invocations of this Run
    postCalls,    \* history: Post invocations of this Run
    postPrep,     \* history: the prepRes Post was called with
    postResults,  \* history: the execResults Post was called with
    postBusy,     \* history: an Exec or ExecFallback was in progress at Post
    postAction,   \* history: the Action Post returned
    returned      \* the Action Run returned

cfgVars == <<variant, maxRetries, routines, routinesArg, flaky, failSet>>
runVars == <<pc, prepRes, execResults, numWorkers, queue, closed, wgCount, idx, frame>>
histVars == <<execCalls, fbCalls, fbArg, lastErr, okAt, writes, ran, prepCalls,
              postCalls, postPrep, postResults, postBusy, postAction, returned>>
nodeVars == <<cfgVars, runVars, histVars>>

VARIABLES
    startNode,    \* Flow.startNode, per Flow
    successors,   \* Node.successors / Flow.successors, per stage
    flowPc,       \* the caller of Flow.Run: "wiring", "running" or "returned"
    stack,        \* the active Flow.Run calls, outermost first
    states,       \* the State values in memory; states[1] is the caller's
    active,       \* the leaf stages whose Run is in progress
    marks,        \* history: the leaf stages run, in the order of their runs
    acts,         \* history: the Actions the leaf stages returned, in order
    lastRoute,    \* history: the latest successor lookup of a Flow.Run
    flowResult,   \* what the outermost Flow.Run returned
    lastWire      \* history: the latest AddSuccessor call (kept where wiring alone is studied)

flowVars == <<startNode, successors, flowPc, stack, states, active, marks, acts,
              lastRoute, flowResult, lastWire>>

VARIABLES
    calls,        \* the goroutines that each call Flow.Run on one shared Node:
                  \* per goroutine its State and the locals of its Run calls
    held,         \* the map a caller of Node.GetSuccessors holds
    pfFlow,       \* package pocketflow: the Nodes made, their successors and
                  \* the Flow.Run in progress
    pfRun,        \* package pocketflow: the fields prepResults and execResults
                  \* of one Node and the Run calls on it
    chat          \* the tool-usage ChatNode: its fields, its conversation and
                  \* the Run of its Flow

\* What lies outside a Node.Run and a Flow.Run of the program, and the same
\* without one of its variables.
sideVars == <<calls, held, pfFlow, pfRun, chat>>
besideCalls == <<held, pfFlow, pfRun, chat>>
besideHeld == <<calls, pfFlow, pfRun, chat>>
besidePfFlow == <<calls, held, pfRun, chat>>
besidePfRun == <<calls, held, pfFlow, chat>>
besideChat == <<calls, held, pfFlow, pfRun>>
vars == <<nodeVars, flowVars, sideVars>>

\* The goroutines of the callers, and a caller that has not called yet.
Callers == {1, 2}
IdleCall ==
    [pc |-> "idle", state |-> <<>>, prepRes |-> <<>>, execResults |-> <<>>, pos |-> 0,
     i |-> 0, err |-> NoErr, postPrep |-> <<>>, postResults |-> <<>>,
     postAction |-> NoAction, returned |-> NoAction]
NoCalls == [c \in Callers |-> IdleCall]

\* A map value a caller holds: ref names the Node whose table the map is, or
\* is "fresh" for a map of its own with the entries in table; no map is held
\* before GetSuccessors is called.
NoMap == [ref |-> "none", table |-> <<>>]

\* package pocketflow: the Nodes a program can make, the first by
\* CreateNode and the others by Next; nothing is wired and Flow.Run is not
\* called yet.
PfNodes == {"P1", "P2", "P3"}
PfNone == "nil"
PfDefault == "default"
NoPfFlow ==
    [made |-> {"P1"},
     succ |-> [n \in PfNodes |-> [a \in Actions |-> PfNone]],
     pc |-> "wiring", node |-> PfNone, action |-> NoAction, trail |-> <<>>,
     last |-> [cur |-> PfNone, a |-> NoAction, next |-> PfNone]]

\* package pocketflow, one Node before any Run: the fields prepResults and
\* execResults are nil (field 0); a channel and a slice are named after the
\* Run call that made them.
PfIdleRun ==
    [pc |-> "idle", prepRes |-> <<>>, idx |-> 0, wg |-> 0, workers |-> {},
     postPrep |-> <<>>, postResults |-> <<>>]
PfNoChan == [q |-> <<>>, cap |-> 0, closed |-> FALSE]
NoPfRun ==
    [chanField |-> 0, resField |-> 0,
     chans |-> [c \in Callers |-> PfNoChan],
     slices |-> [c \in Callers |-> <<>>],
     run |-> [c \in Callers |-> PfIdleRun],
     wk |-> [c \in Callers |-> [w \in Workers |-> [pc |-> "none", ch |-> 0]]],
     panic |-> FALSE,
     overlap |-> FALSE]

\* NewChatNode: the fields of a ChatNode are zero, the conversation of the
\* State is empty and no Flow.Run is in progress. returned is the history of
\* the Actions Post returned; before, parsed and added describe the latest
\* Post: errorRetryCount at its entry, what parseYAMLResponse gave ("none"
\* when it was not called) and the messages the Post added.
NewChatNode ==
    [errorRetryCount |-> 0, isUserInputRequired |-> FALSE, messages |-> <<>>,
     pc |-> "idle", prepRes |-> 0, execResult |-> "none", action |-> NoAction,
     returned |-> <<>>, before |-> 0, parsed |-> "none", added |-> <<>>]

NoSide ==
    /\ calls = NoCalls
    /\ held = NoMap
    /\ pfFlow = NoPfFlow
    /\ pfRun = NoPfRun
    /\ chat = NewChatNode

\* the retry loop's condition: i < n.maxRetries+1, i counting the attempts
\* made on the item at hand
MutMoreAttemptsNoRetry(i, mr) == i < 1
MutSharedBudget(i, mr) ==
    i + Cardinality({j \in 1..Len(prepRes) : fbCalls[j] > 0}) < mr + 1
MoreAttempts(i, mr) == i < mr + 1

\* execResults[item.pos] = ...: the slot a task's result is written to
MutSlotLast(pos) == Len(prepRes)
SlotOf(pos) == pos

IdleFrame == [pc |-> "idle", pos |-> 0, i |-> 0, err |-> NoErr]
N == Len(prepRes)
Busy(p) == frame[p].pc \in {"exec", "fallback"}

\* Everything a Run owns, as it is before Run is called.
NoRun ==
    /\ pc = "idle"
    /\ prepRes = <<>>
    /\ execResults = <<>>
    /\ numWorkers = 0
    /\ queue = <<>>
    /\ closed = FALSE
    /\ wgCount = 0
    /\ idx = 0
    /\ frame = [p \in Procs |-> IdleFrame]
    /\ execCalls = <<>>
    /\ fbCalls = <<>>
    /\ fbArg = <<>>
    /\ lastErr = <<>>
    /\ okAt = <<>>
    /\ writes = <<>>
    /\ ran = {}
    /\ prepCalls = 0
    /\ postCalls = 0
    /\ postPrep = <<>>
    /\ postResults = <<>>
    /\ postBusy = FALSE
    /\ postAction = NoAction
    /\ returned = NoAction

\* ----------------------------------------------------------------- stages
\* The stages (Workflow values) of a program: two leaf stages, whose Run is
\* Node.Run (Prep, Exec, Post), and two Flows. Nil is the nil Workflow.
Nodes == {"U1", "U2"}
Flows == {"G1", "G2"}
Stages == Nodes \cup Flows
Nil == "nil"

\* make(map[Action]Workflow[State]): no entry under any Action
EmptyTable == [a \in Actions |-> Nil]

NoRoute ==
    [flow |-> Nil, from |-> Nil, cur |-> Nil, a |-> NoAction, next |-> Nil, runs |-> 0]

NoWire == [on |-> Nil, w |-> Nil, arg |-> NoAction, old |-> Nil, ret |-> Nil]

\* No Flow.Run has been called and nothing is wired.
NoFlowRun ==
    /\ flowPc = "wiring"
    /\ stack = <<>>
    /\ states = << <<>> >>
    /\ active = {}
    /\ marks = <<>>
    /\ acts = <<>>
    /\ lastRoute = NoRoute
    /\ flowResult = [a |-> NoAction, src |-> "none"]
    /\ lastWire = NoWire
    /\ NoSide

NoFlow ==
    /\ startNode = [f \in Flows |-> Nil]
    /\ successors = [s \in Stages |-> EmptyTable]
    /\ NoFlowRun

\* NewNode(basenode, maxRetries, maxRoutines)
NewNode(r, m) ==
    /\ maxRetries = r
    /\ routines = ClampRoutines(m)
    /\ routinesArg = m

Init ==
    /\ variant \in {"part_001", "core_node"}
    /\ \E r \in RetriesArgs, m \in RoutinesArgs : NewNode(r, m)
    /\ flaky \in BOOLEAN
    /\ failSet \in IF flaky THEN {{}} ELSE {{}, {"b"}, ItemVals}
    /\ NoRun
    /\ NoFlow

\* ------------------------------------------------------------ configuration
\* func (n *Node) SetMaxRetries(retries int)
SetMaxRetries ==
    /\ pc = "idle"
    /\ \E r \in RetriesArgs : maxRetries' = r
    /\ UNCHANGED <<variant, routines, routinesArg, flaky, failSet, runVars, histVars>>
    /\ UNCHANGED <<flowVars, sideVars>>

\* func (n *Node) SetMaxRoutines(routines int)
SetMaxRoutines ==
    /\ pc = "idle"
    /\ \E m \in RoutinesArgs :
        /\ routines' = ClampRoutines(m)
        /\ routinesArg' = m
    /\ UNCHANGED <<variant, maxRetries, flaky, failSet, runVars, histVars>>
    /\ UNCHANGED <<flowVars, sideVars>>

\* ------------------------------------------------------------------- Run
PrepSeqs == UNION {[1..k -> ItemVals] : k \in 0..MaxItems}

\* prepRes := n.node.Prep(state); the empty case goes straight to Post;
\* otherwise numWorkers and execResults are set up and the path is chosen.
RunPrep ==
    /\ pc = "idle"
    /\ prepCalls' = prepCalls + 1
    /\ \E items \in PrepSeqs :
        /\ prepRes' = items
        /\ IF EmptyPrep(items)
           THEN /\ pc' = "post"
                /\ UNCHANGED <<execResults, numWorkers, execCalls, fbCalls, fbArg,
                               lastErr, okAt, writes>>
           ELSE /\ numWorkers' = NumWorkers(routines, Len(items))
                /\ execResults' = [i \in 1..Len(items) |-> Zero]
                /\ execCalls' = [i \in 1..Len(items) |-> 0]
                /\ fbCalls' = [i \in 1..Len(items) |-> 0]
                /\ fbArg' = [i \in 1..Len(items) |-> NoErr]
                /\ lastErr' = [i \in 1..Len(items) |-> NoErr]
                /\ okAt' = [i \in 1..Len(items) |-> 0]
                /\ writes' = [i \in 1..Len(items) |-> 0]
                /\ pc' = IF SinglePath(variant, numWorkers') THEN "single" ELSE "spawn"
    /\ idx' = 1
    /\ UNCHANGED <<cfgVars, queue, closed, wgCount, frame, ran, postCalls, postPrep,
                   postResults, postBusy, postAction, returned>>
    /\ UNCHANGED <<flowVars, sideVars>>

\* The goroutine p takes the item at position pos and enters the retry loop
\* with i = 0. When the loop's condition is false from the start no Exec
\* call is made: executeWithRetry returns the zero value and a nil error,
\* which part_001 stores in the slot; core_node stores nothing.
Ready(p) == IF p = Main THEN "idle" ELSE "recv"

StartItem(p, pos) ==
    IF MoreAttempts(0, maxRetries)
    THEN /\ frame' = [frame EXCEPT ![p] = [pc |-> "exec", pos |-> pos, i |-> 0, err |-> NoErr]]
         /\ execCalls' = [execCalls EXCEPT ![pos] = @ + 1]
         /\ UNCHANGED <<execResults, writes>>
    ELSE /\ UNCHANGED <<frame, execCalls>>
         /\ IF variant = "part_001"
            THEN /\ execResults' = [execResults EXCEPT ![SlotOf(pos)] = Zero]
                 /\ writes' = [writes EXCEPT ![SlotOf(pos)] = @ + 1]
            ELSE UNCHANGED <<execResults, writes>>

\* the sequential path: for i, item := range prepRes { ... }
SingleNext ==
    /\ pc = "single"
    /\ frame[Main].pc = "idle"
    /\ idx <= N
    /\ idx' = idx + 1
    /\ StartItem(Main, idx)
    /\ UNCHANGED <<cfgVars, pc, prepRes, numWorkers, queue, closed, wgCount,
                   fbCalls, fbArg, lastErr, okAt, ran, prepCalls, postCalls, postPrep,
                   postResults, postBusy, postAction, returned>>
    /\ UNCHANGED <<flowVars, sideVars>>

SingleDone ==
    /\ pc = "single"
    /\ frame[Main].pc = "idle"
    /\ idx > N
    /\ pc' = "post"
    /\ UNCHANGED <<cfgVars, prepRes, execResults, numWorkers, queue, closed, wgCount,
                   idx, frame, histVars>>
    /\ UNCHANGED <<flowVars, sideVars>>

\* for i := 0; i < numWorkers; i++ { wg.Add(1); go worker(wg) }
\* One step: a started worker can only block on the empty channel until
\* the first send, which comes after the last `go`.
Spawn ==
    /\ pc = "spawn"
    /\ wgCount' = wgCount + Cardinality(1..numWorkers)
    /\ frame' = [p \in Procs |-> IF p \in 1..numWorkers
                                 THEN [IdleFrame EXCEPT !.pc = "recv"]
                                 ELSE frame[p]]
    /\ ran' = 1..numWorkers
    /\ pc' = "enqueue"
    /\ UNCHANGED <<cfgVars, prepRes, execResults, numWorkers, queue, closed, idx,
                   execCalls, fbCalls, fbArg, lastErr, okAt, writes, prepCalls,
                   postCalls, postPrep, postResults, postBusy, postAction, returned>>
    /\ UNCHANGED <<flowVars, sideVars>>

\* prepResults := make(chan task, len(prepRes)): the channel's capacity;
\* prepResults <- task{pos: i, result: item} blocks while the channel is full
MutCapOne(n) == 1
QueueCap(n) == n

Enqueue ==
    /\ pc = "enqueue"
    /\ idx <= N
    /\ Len(queue) < QueueCap(N)
    /\ queue' = Append(queue, idx)
    /\ idx' = idx + 1
    /\ UNCHANGED <<cfgVars, pc, prepRes, execResults, numWorkers, closed, wgCount,
                   frame, histVars>>
    /\ UNCHANGED <<flowVars, sideVars>>

\* close(prepResults)
Close ==
    /\ pc = "enqueue"
    /\ idx > N
    /\ closed' = TRUE
    /\ pc' = "wait"
    /\ UNCHANGED <<cfgVars, prepRes, execResults, numWorkers, queue, wgCount, idx,
                   frame, histVars>>
    /\ UNCHANGED <<flowVars, sideVars>>

\* wg.Wait()
MutWaitNoBarrier == TRUE
WaitDone == wgCount = 0

Wait ==
    /\ pc = "wait"
    /\ WaitDone
    /\ pc' = "post"
    /\ UNCHANGED <<cfgVars, prepRes, execResults, numWorkers, queue, closed, wgCount,
                   idx, frame, histVars>>
    /\ UNCHANGED <<flowVars, sideVars>>

\* return n.node.Post(state, prepRes, execResults...)
MutRunResultFailure(a) == IF \E i \in 1..N : fbCalls[i] > 0 THEN ActionFailure ELSE a
RunResult(a) == a

Post ==
    /\ pc = "post"
    /\ postCalls' = postCalls + 1
    /\ postPrep' = prepRes
    /\ postResults' = execResults
    /\ postBusy' = \E p \in Procs : Busy(p)
    /\ \E a \in Actions :
        /\ postAction' = a
        /\ returned' = RunResult(a)
    /\ pc' = "done"
    /\ UNCHANGED <<cfgVars, prepRes, execResults, numWorkers, queue, closed, wgCount,
                   idx, frame, execCalls, fbCalls, fbArg, lastErr, okAt, writes, ran,
                   prepCalls>>
    /\ UNCHANGED <<flowVars, sideVars>>

\* Run has returned to its caller: its locals are gone.
RunReturn ==
    /\ pc = "done"
    /\ pc' = "idle"
    /\ prepRes' = <<>>
    /\ execResults' = <<>>
    /\ numWorkers' = 0
    /\ queue' = <<>>
    /\ closed' = FALSE
    /\ wgCount' = 0
    /\ idx' = 0
    /\ frame' = [p \in Procs |-> IdleFrame]
    /\ execCalls' = <<>>
    /\ fbCalls' = <<>>
    /\ fbArg' = <<>>
    /\ lastErr' = <<>>
    /\ okAt' = <<>>
    /\ writes' = <<>>
    /\ ran' = {}
    /\ prepCalls' = 0
    /\ postCalls' = 0
    /\ postPrep' = <<>>
    /\ postResults' = <<>>
    /\ postBusy' = FALSE
    /\ postAction' = NoAction
    /\ returned' = NoAction
    /\ UNCHANGED cfgVars
    /\ UNCHANGED <<flowVars, sideVars>>

\* --------------------------------------------------------------- workers
\* for item := range prepResults: a task is received
Recv(w) ==
    /\ frame[w].pc = "recv"
    /\ queue # <<>>
    /\ queue' = Tail(queue)
    /\ StartItem(w, Head(queue))
    /\ UNCHANGED <<cfgVars, pc, prepRes, numWorkers, closed, wgCount, idx,
                   fbCalls, fbArg, lastErr, okAt, ran, prepCalls, postCalls, postPrep,
                   postResults, postBusy, postAction, returned>>
    /\ UNCHANGED <<flowVars, sideVars>>

\* the range loop ends on the closed and drained channel; defer wg.Done()
WorkerExit(w) ==
    /\ frame[w].pc = "recv"
    /\ queue = <<>>
    /\ closed
    /\ frame' = [frame EXCEPT ![w] = [IdleFrame EXCEPT !.pc = "exited"]]
    /\ wgCount' = wgCount - 1
    /\ UNCHANGED <<cfgVars, pc, prepRes, execResults, numWorkers, queue, closed, idx,
                   histVars>>
    /\ UNCHANGED <<flowVars, sideVars>>

\* What an Exec call on the item may return: the error is NoErr at a success.
ExecOutcomes(item, k) ==
    (IF flaky \/ item \notin failSet THEN {NoErr} ELSE {})
    \cup (IF flaky \/ item \in failSet
          THEN {ExecError(item, IF flaky THEN k ELSE 0)}
          ELSE {})

\* An Exec call of goroutine p returns. On a nil err the value is stored in
\* the slot and the item is finished; otherwise i++ and either the next
\* attempt starts or the loop is left and ExecFallback(err) is called.
ExecReturn(p) ==
    /\ frame[p].pc = "exec"
    /\ LET f == frame[p]
           item == prepRes[f.pos]
       IN \E e \in ExecOutcomes(item, execCalls[f.pos]) :
          LET err == AssignErr(f.err, e) IN
          /\ lastErr' = IF e = NoErr THEN lastErr ELSE [lastErr EXCEPT ![f.pos] = e]
          /\ okAt' = IF e = NoErr /\ okAt[f.pos] = 0
                       THEN [okAt EXCEPT ![f.pos] = execCalls[f.pos]]
                       ELSE okAt
          /\ IF IsNil(err)
             THEN /\ execResults' = [execResults EXCEPT ![SlotOf(f.pos)] = ExecValue(item)]
                  /\ writes' = [writes EXCEPT ![SlotOf(f.pos)] = @ + 1]
                  /\ frame' = [frame EXCEPT ![p] = [IdleFrame EXCEPT !.pc = Ready(p)]]
                  /\ UNCHANGED <<execCalls, fbCalls, fbArg>>
             ELSE IF MoreAttempts(f.i + 1, maxRetries)
             THEN /\ frame' = [frame EXCEPT ![p] = [f EXCEPT !.i = f.i + 1, !.err = err]]
                  /\ execCalls' = [execCalls EXCEPT ![f.pos] = @ + 1]
                  /\ UNCHANGED <<execResults, writes, fbCalls, fbArg>>
             ELSE /\ frame' = [frame EXCEPT ![p] = [f EXCEPT !.pc = "fallback",
                                                              !.i = f.i + 1, !.err = err]]
                  /\ fbCalls' = [fbCalls EXCEPT ![f.pos] = @ + 1]
                  /\ fbArg' = [fbArg EXCEPT ![f.pos] = err]
                  /\ UNCHANGED <<execResults, writes, execCalls>>
    /\ UNCHANGED <<cfgVars, pc, prepRes, numWorkers, queue, closed, wgCount, idx, ran,
                   prepCalls, postCalls, postPrep, postResults, postBusy, postAction,
                   returned>>
    /\ UNCHANGED <<flowVars, sideVars>>

\* The ExecFallback call of goroutine p returns: its value goes to the slot.
FallbackReturn(p) ==
    /\ frame[p].pc = "fallback"
    /\ execResults' = [execResults EXCEPT ![SlotOf(frame[p].pos)] = ExecFallback(frame[p].err)]
    /\ writes' = [writes EXCEPT ![SlotOf(frame[p].pos)] = @ + 1]
    /\ frame' = [frame EXCEPT ![p] = [IdleFrame EXCEPT !.pc = Ready(p)]]
    /\ UNCHANGED <<cfgVars, pc, prepRes, numWorkers, queue, closed, wgCount, idx,
                   execCalls, fbCalls, fbArg, lastErr, okAt, ran, prepCalls, postCalls,
                   postPrep, postResults, postBusy, postAction, returned>>
    /\ UNCHANGED <<flowVars, sideVars>>

WorkerRecv == \E w \in Workers : Recv(w)
WorkerDone == \E w \in Workers : WorkerExit(w)
ExecReturns == \E p \in Procs : ExecReturn(p)
FallbackReturns == \E p \in Procs : FallbackReturn(p)

Next ==
    \/ SetMaxRetries
    \/ SetMaxRoutines
    \/ RunPrep
    \/ SingleNext
    \/ SingleDone
    \/ Spawn
    \/ Enqueue
    \/ Close
    \/ Wait
    \/ Post
    \/ RunReturn
    \/ WorkerRecv
    \/ WorkerDone
    \/ ExecReturns
    \/ FallbackReturns

Spec == Init /\ [][Next]_vars

\* ---------------------------------------------------------------- Run, live
\* One Run of a Node from every configuration, every goroutine of it being
\* scheduled again and again by the Go runtime and every Exec and
\* ExecFallback call returning.
RunLiveNext ==
    \/ RunPrep
    \/ SingleNext
    \/ SingleDone
    \/ Spawn
    \/ Enqueue
    \/ Close
    \/ Wait
    \/ Post
    \/ WorkerRecv
    \/ WorkerDone
    \/ ExecReturns
    \/ FallbackReturns

RunFairness ==
    /\ WF_vars(SingleNext)
    /\ WF_vars(SingleDone)
    /\ WF_vars(Spawn)
    /\ WF_vars(Enqueue)
    /\ WF_vars(Close)
    /\ WF_vars(Wait)
    /\ WF_vars(Post)
    /\ \A w \in Workers : WF_vars(Recv(w)) /\ WF_vars(WorkerExit(w))
    /\ \A p \in Procs : WF_vars(ExecReturn(p)) /\ WF_vars(FallbackReturn(p))

RunLive == Init /\ [][RunLiveNext]_vars /\ RunFairness

\* =================================================================== Flow
\* Flow.Run: the traversal of stages by Action. A leaf stage's Run is
\* Node.Run as a whole: it puts its mark on the State and returns the
\* Action its Post returned.
MaxEdges == 2
MaxRuns == 3
MaxMarks == 5

\* What the wiring calls pass: a stage or nil, and an Action or none
\* (NoAction here). G1 is the Flow the caller runs and is wired under nothing.
WireTargets == (Stages \ {"G1"}) \cup {Nil}
NodeWireArgs == {NoAction, ActionContinue, ActionDefault}
FlowWireArgs == {NoAction, ActionDefault}

\* func (n *Node) GetSuccessor(action) / func (f *Flow) GetSuccessor(action)
MutGetSuccessorOrDefault(s, a) ==
    IF successors[s][a] # Nil THEN successors[s][a] ELSE successors[s][ActionDefault]
GetSuccessor(s, a) == successors[s][a]

\* Flow.Run: nextWorkflow := currentWorkflow.GetSuccessor(action);
\* if nextWorkflow == nil { nextWorkflow = f.GetSuccessor(action) }
MutNextAnyEdge(f, cur, a) ==
    IF GetSuccessor(cur, a) # Nil THEN GetSuccessor(cur, a)
    ELSE IF GetSuccessor(f, a) # Nil THEN GetSuccessor(f, a)
    ELSE GetSuccessor(cur, ActionContinue)
MutNextFlowFirst(f, cur, a) ==
    IF GetSuccessor(f, a) # Nil THEN GetSuccessor(f, a) ELSE GetSuccessor(cur, a)
MutNextDefault(f, cur, a) ==
    IF GetSuccessor(cur, a) # Nil THEN GetSuccessor(cur, a)
    ELSE IF GetSuccessor(f, a) # Nil THEN GetSuccessor(f, a)
    ELSE GetSuccessor(cur, ActionDefault)
MutNextStageOnly(f, cur, a) == GetSuccessor(cur, a)
MutNextRetriesCurrent(f, cur, a) ==
    IF a = ActionRetry THEN cur
    ELSE IF GetSuccessor(cur, a) # Nil THEN GetSuccessor(cur, a) ELSE GetSuccessor(f, a)
NextWorkflow(f, cur, a) ==
    IF GetSuccessor(cur, a) # Nil THEN GetSuccessor(cur, a) ELSE GetSuccessor(f, a)

\* Flow.Run: if currentWorkflow == nil { return ActionFailure }
MutNilStartUnchecked(w) == FALSE
IsNilStart(w) == w = Nil

\* Flow.Run: finalAction = action. An Action is kept with where it comes
\* from: "init" (var finalAction Action = ActionSuccess), "post" (returned by
\* a leaf stage's Post) or "nil" (the ActionFailure of a nil start).
MutFinalKept(old, new) == old
AssignFinal(old, new) == new

\* Flow.Run: for currentWorkflow != nil
MutLoopNeverEnds(next) == FALSE
LoopEnds(next) == next = Nil

\* The histories keep their first MaxMarks entries.
Log(seq, x) == IF Len(seq) < MaxMarks THEN Append(seq, x) ELSE seq

\* Flow.Run(state *State): the callee works on the State it is given.
MutWorkingCopy(ref) == ref + 1
PassState(ref) == ref

InitFinal == [a |-> ActionSuccess, src |-> "init"]
NilFailure == [a |-> ActionFailure, src |-> "nil"]
NewFrame(f, ref) ==
    [flow |-> f, from |-> Nil, cur |-> startNode[f], final |-> InitFinal, ref |-> ref,
     at |-> "call"]
Top == stack[Len(stack)]
SetTop(fr) == [stack EXCEPT ![Len(stack)] = fr]
EdgeCount(tables) ==
    Cardinality({sa \in Stages \X Actions : tables[sa[1]][sa[2]] # Nil})

\* NewFlow(startNode): the two Flows of the program. Every Flow.Run of these
\* reaches a leaf stage or a nil start within two calls.
FlowInit ==
    /\ variant = "part_001"
    /\ NewNode(0, 1)
    /\ flaky = FALSE
    /\ failSet = {}
    /\ NoRun
    /\ startNode \in {f \in [Flows -> Stages \cup {Nil}] :
                        /\ f["G1"] \in {Nil, "U1", "G2"}
                        /\ f["G2"] \in {Nil, "U1", "U2"}}
    /\ successors = [s \in Stages |-> EmptyTable]
    /\ NoFlowRun

\* AddSuccessor: if workflow == nil { return workflow } (Node),
\* if successor == nil { return successor } (Flow)
MutNodeStoresNil(w) == FALSE
NodeSkips(w) == w = Nil
MutFlowStoresNil(w) == FALSE
FlowSkips(w) == w = Nil

\* The key of the edge: action[0], or with no Action given ActionDefault on
\* a Node and ActionSuccess on a Flow.
MutNodeKeySuccess(arg) == IF arg = NoAction THEN ActionSuccess ELSE arg
NodeKey(arg) == IF arg = NoAction THEN ActionDefault ELSE arg
MutFlowKeyDefault(arg) == IF arg = NoAction THEN ActionDefault ELSE arg
FlowKey(arg) == IF arg = NoAction THEN ActionSuccess ELSE arg

\* successors[key] = workflow
MutPutIfAbsent(table, key, w) == IF table[key] # Nil THEN table ELSE [table EXCEPT ![key] = w]
Put(table, key, w) == [table EXCEPT ![key] = w]

\* func (n *Node) AddSuccessor(workflow, action ...Action): the tables
\* after the call
NodeAdded(n, w, arg) ==
    IF NodeSkips(w) THEN successors
    ELSE [successors EXCEPT ![n] = Put(@, NodeKey(arg), w)]

\* func (f *Flow) AddSuccessor(successor, action ...Action): the tables
\* after the call
FlowAdded(f, w, arg) ==
    IF FlowSkips(w) THEN successors
    ELSE [successors EXCEPT ![f] = Put(@, FlowKey(arg), w)]

\* An AddSuccessor call of the wiring before Flow.Run.
NodeAddSuccessor(n, w, arg) ==
    /\ flowPc = "wiring"
    /\ successors' = NodeAdded(n, w, arg)
    /\ EdgeCount(successors') <= MaxEdges
    /\ UNCHANGED <<nodeVars, sideVars, startNode, flowPc, stack, states, active, marks, acts,
                   lastRoute, flowResult, lastWire>>

FlowAddSuccessor(f, w, arg) ==
    /\ flowPc = "wiring"
    /\ successors' = FlowAdded(f, w, arg)
    /\ EdgeCount(successors') <= MaxEdges
    /\ UNCHANGED <<nodeVars, sideVars, startNode, flowPc, stack, states, active, marks, acts,
                   lastRoute, flowResult, lastWire>>

\* The State a Flow.Run called with the State at ref works on; a State that
\* is not the caller's is a copy made at the call.
StatesAtCall(ref) ==
    IF PassState(ref) > Len(states) THEN Append(states, states[ref]) ELSE states

\* flow.Run(&state) is called on G1: a nil start returns ActionFailure at
\* once; a start that is nil past that check leaves the loop unentered and
\* returns the initial finalAction.
FlowRun ==
    /\ flowPc = "wiring"
    /\ IF IsNilStart(startNode["G1"])
       THEN /\ flowPc' = "returned"
            /\ flowResult' = NilFailure
            /\ UNCHANGED <<stack, states>>
       ELSE IF startNode["G1"] = Nil
       THEN /\ flowPc' = "returned"
            /\ flowResult' = InitFinal
            /\ UNCHANGED <<stack, states>>
       ELSE /\ flowPc' = "running"
            /\ stack' = <<NewFrame("G1", PassState(1))>>
            /\ states' = StatesAtCall(1)
            /\ UNCHANGED flowResult
    /\ UNCHANGED <<nodeVars, sideVars, startNode, successors, active, marks, acts, lastRoute,
                   lastWire>>

\* action := currentWorkflow.Run(state), currentWorkflow a leaf stage: its
\* Run starts (Prep is called).
NodeRunStart(bounded) ==
    /\ flowPc = "running"
    /\ Top.at = "call"
    /\ Top.cur \in Nodes
    /\ bounded => Len(marks) < MaxRuns
    /\ stack' = SetTop([Top EXCEPT !.at = "in"])
    /\ active' = active \cup {Top.cur}
    /\ UNCHANGED <<nodeVars, sideVars, startNode, successors, flowPc, states, marks, acts,
                   lastRoute, flowResult, lastWire>>

\* The leaf stage's Run returns what its Post returned, the State marked.
NodeRunReturn ==
    /\ flowPc = "running"
    /\ Top.at = "in"
    /\ Top.cur \in Nodes
    /\ \E a \in Actions :
        /\ acts' = Log(acts, a)
        /\ stack' = SetTop([Top EXCEPT
                              !.final = AssignFinal(@, [a |-> RunResult(a), src |-> "post"]),
                              !.at = "route"])
    /\ states' = [states EXCEPT ![Top.ref] = Log(@, Top.cur)]
    /\ marks' = Log(marks, Top.cur)
    /\ active' = active \ {Top.cur}
    /\ UNCHANGED <<nodeVars, sideVars, startNode, successors, flowPc, lastRoute, flowResult,
                   lastWire>>

\* action := currentWorkflow.Run(state), currentWorkflow a Flow: a nested
\* Flow.Run call on the same State.
NestedFlowRun ==
    /\ flowPc = "running"
    /\ Top.at = "call"
    /\ Top.cur \in Flows
    /\ IF IsNilStart(startNode[Top.cur])
       THEN /\ stack' = SetTop([Top EXCEPT !.final = AssignFinal(@, NilFailure),
                                           !.at = "route"])
            /\ UNCHANGED states
       ELSE IF startNode[Top.cur] = Nil
       THEN /\ stack' = SetTop([Top EXCEPT !.final = AssignFinal(@, InitFinal),
                                           !.at = "route"])
            /\ UNCHANGED states
       ELSE /\ stack' = Append(SetTop([Top EXCEPT !.at = "in"]),
                               NewFrame(Top.cur, PassState(Top.ref)))
            /\ states' = StatesAtCall(Top.ref)
    /\ UNCHANGED <<nodeVars, sideVars, startNode, successors, flowPc, active, marks, acts,
                   lastRoute, flowResult, lastWire>>

\* The rest of the loop body: the successor is looked up and becomes the
\* current stage; with none the loop ends and Flow.Run returns finalAction,
\* to the Flow.Run that called it or to the caller of the outermost one.
Route ==
    /\ flowPc = "running"
    /\ Top.at = "route"
    /\ LET next == NextWorkflow(Top.flow, Top.cur, Top.final.a)
       IN /\ lastRoute' = [flow |-> Top.flow, from |-> Top.from, cur |-> Top.cur,
                           a |-> Top.final.a, next |-> next, runs |-> Len(marks)]
          /\ IF ~LoopEnds(next)
             THEN /\ stack' = SetTop([Top EXCEPT !.from = Top.cur, !.cur = next,
                                                 !.at = "call"])
                  /\ UNCHANGED <<flowPc, flowResult>>
             ELSE IF Len(stack) = 1
             THEN /\ stack' = <<>>
                  /\ flowPc' = "returned"
                  /\ flowResult' = Top.final
             ELSE /\ stack' = [k \in 1..(Len(stack) - 1) |->
                                IF k = Len(stack) - 1
                                THEN [stack[k] EXCEPT !.final = AssignFinal(@, Top.final),
                                                      !.at = "route"]
                                ELSE stack[k]]
                  /\ UNCHANGED <<flowPc, flowResult>>
    /\ UNCHANGED <<nodeVars, sideVars, startNode, successors, states, active, marks, acts,
                   lastWire>>

WireNode ==
    \E n \in Nodes, w \in WireTargets, arg \in NodeWireArgs : NodeAddSuccessor(n, w, arg)
WireFlow ==
    \E f \in Flows, w \in WireTargets, arg \in FlowWireArgs : FlowAddSuccessor(f, w, arg)
NodeRunStarts == NodeRunStart(TRUE)

FlowNext ==
    \/ WireNode
    \/ WireFlow
    \/ FlowRun
    \/ NodeRunStarts
    \/ NodeRunReturn
    \/ NestedFlowRun
    \/ Route

FlowSpec == FlowInit /\ [][FlowNext]_vars

\* ------------------------------------------------------------- Flow, live
\* A Flow of Nodes only, run to the end or for ever: nothing stops a stage
\* from running again, and the Go runtime keeps the one goroutine of
\* Flow.Run going as long as every call it makes returns.
LiveInit ==
    /\ FlowInit
    /\ startNode["G1"] \in {Nil, "U1"}
    /\ startNode["G2"] = Nil

LiveWire ==
    \E n \in Nodes, w \in Nodes \cup {Nil}, arg \in NodeWireArgs : NodeAddSuccessor(n, w, arg)
NodeRunRepeats == NodeRunStart(FALSE)

LiveNext ==
    \/ LiveWire
    \/ FlowRun
    \/ NodeRunRepeats
    \/ NodeRunReturn
    \/ Route

LiveFairness ==
    /\ WF_vars(NodeRunRepeats)
    /\ WF_vars(NodeRunReturn)
    /\ WF_vars(Route)

FlowLive == LiveInit /\ [][LiveNext]_vars /\ LiveFairness

\* ------------------------------------------------------------ Flow, Retry
\* A Flow that starts at a Node, with edges under Retry alone: what Flow.Run
\* does when a Post returns ActionRetry.
RetryInit ==
    /\ FlowInit
    /\ startNode["G1"] = "U1"
    /\ startNode["G2"] = Nil

RetryWire ==
    \E n \in Nodes, w \in Nodes \cup {Nil} : NodeAddSuccessor(n, w, ActionRetry)

RetryNext ==
    \/ RetryWire
    \/ FlowRun
    \/ NodeRunStarts
    \/ NodeRunReturn
    \/ Route

RetrySpec == RetryInit /\ [][RetryNext]_vars

\* ------------------------------------------------------- Flow, self-nested
\* workflow.AddSuccessor(workflow, ActionSuccess); workflow.Run(&state): a
\* Flow over one Node, wired as its own successor.
SelfInit ==
    /\ FlowInit
    /\ startNode["G1"] = "U1"
    /\ startNode["G2"] = Nil

SelfWireArgs == {ActionSuccess, ActionContinue}
SelfWire == \E arg \in SelfWireArgs : FlowAddSuccessor("G1", "G1", arg)

SelfNext ==
    \/ SelfWire
    \/ FlowRun
    \/ NodeRunStarts
    \/ NodeRunReturn
    \/ NestedFlowRun
    \/ Route

SelfSpec == SelfInit /\ [][SelfNext]_vars

\* ----------------------------------------------------------------- wiring
\* The AddSuccessor calls alone, on one Node and one Flow, with every
\* Action or none and with a stage or nil; each call is kept in lastWire
\* with the entry its key held before and the value it returned.
WireInit ==
    /\ FlowInit
    /\ startNode = [f \in Flows |-> Nil]

WiredStages == {"U2", "G2", Nil}
WireActions == Actions \cup {NoAction}

NodeAddSuccessorCall(n, w, arg) ==
    /\ successors' = NodeAdded(n, w, arg)
    /\ EdgeCount(successors') <= MaxEdges
    /\ lastWire' = [on |-> n, w |-> w, arg |-> arg, old |-> successors[n][NodeKey(arg)],
                    ret |-> w]
    /\ UNCHANGED <<nodeVars, sideVars, startNode, flowPc, stack, states, active, marks, acts,
                   lastRoute, flowResult>>

FlowAddSuccessorCall(f, w, arg) ==
    /\ successors' = FlowAdded(f, w, arg)
    /\ EdgeCount(successors') <= MaxEdges
    /\ lastWire' = [on |-> f, w |-> w, arg |-> arg, old |-> successors[f][FlowKey(arg)],
                    ret |-> w]
    /\ UNCHANGED <<nodeVars, sideVars, startNode, flowPc, stack, states, active, marks, acts,
                   lastRoute, flowResult>>

NodeWiring == \E w \in WiredStages, arg \in WireActions : NodeAddSuccessorCall("U1", w, arg)
FlowWiring == \E w \in WiredStages, arg \in WireActions : FlowAddSuccessorCall("G1", w, arg)

WireNext ==
    \/ NodeWiring
    \/ FlowWiring

WireSpec == WireInit /\ [][WireNext]_vars

\* ------------------------------------------------------------ GetSuccessors
\* A caller wires the Node, asks it for its successors and then writes to
\* the map it was given: m[a] = w or delete(m, a).
HeldMap == "map"
Fresh == "fresh"

\* func (n *Node) GetSuccessors(): return n.successors. A Go map value is a
\* reference: what is returned is the Node's table itself.
MutReturnsCopy(n) == [ref |-> Fresh, table |-> successors[n]]
GetSuccessorsResult(n) == [ref |-> n, table |-> <<>>]

\* The entries of a map value.
EntriesOf(m) == IF m.ref \in Stages THEN successors[m.ref] ELSE m.table

GetSuccessorsCall(n) ==
    /\ held' = GetSuccessorsResult(n)
    /\ UNCHANGED <<nodeVars, flowVars, besideHeld>>

\* m[a] = w, or delete(m, a) when w is nil, on the map held: the write goes
\* to the table the map value refers to.
HeldMapWrite(a, w) ==
    /\ held # NoMap
    /\ IF held.ref \in Stages
       THEN /\ successors' = [successors EXCEPT ![held.ref] = Put(@, a, w)]
            /\ UNCHANGED held
       ELSE /\ held' = [held EXCEPT !.table = Put(@, a, w)]
            /\ UNCHANGED successors
    /\ EdgeCount(successors') <= MaxEdges
    /\ lastWire' = [on |-> HeldMap, w |-> w, arg |-> a, old |-> EntriesOf(held)[a],
                    ret |-> Nil]
    /\ UNCHANGED <<nodeVars, besideHeld, startNode, flowPc, stack, states, active, marks,
                   acts, lastRoute, flowResult>>

MapWiring == \E w \in WiredStages, arg \in WireActions : NodeAddSuccessorCall("U1", w, arg)
MapGet == GetSuccessorsCall("U1")
MapWrite == \E a \in Actions, w \in WiredStages : HeldMapWrite(a, w)

MapNext ==
    \/ MapWiring
    \/ MapGet
    \/ MapWrite

MapSpec == WireInit /\ [][MapNext]_vars

\* ------------------------------------------------- package pocketflow, Flow
\* func (n *Node) Next(basenode, action ...Action) *Node: a new Node is made
\* and stored under action[0], or under "default" with no action. Flow.Run
\* then walks from the Flow's Node; a Node's Run is taken as a whole and
\* returns the Action its Post returned.
PfNextArgs == {NoAction, ActionContinue, ActionDefault}
PfKey(arg) == IF arg = NoAction THEN PfDefault ELSE arg

\* if nextNode, exists := node.successors[action]; exists { node = nextNode }
\* else if defaultNode, exists := node.successors["default"]; exists { ... }
\* else { node = nil }
MutPfNoDefault(table, a) == table[a]
MutPfDefaultFirst(table, a) == IF table[PfDefault] # PfNone THEN table[PfDefault] ELSE table[a]
PfLookup(table, a) == IF table[a] # PfNone THEN table[a] ELSE table[PfDefault]

\* node := &Node{...}: the Node that Next makes
PfFresh(made) == IF "P2" \notin made THEN "P2" ELSE "P3"

PfNodeNext(n, arg) ==
    /\ pfFlow.pc = "wiring"
    /\ n \in pfFlow.made
    /\ pfFlow.made # PfNodes
    /\ LET w == PfFresh(pfFlow.made)
       IN pfFlow' = [pfFlow EXCEPT !.made = @ \cup {w}, !.succ[n][PfKey(arg)] = w]
    /\ UNCHANGED <<nodeVars, flowVars, besidePfFlow>>

\* CreateFlow(node).Run(state): node := f.Node
PfFlowRun ==
    /\ pfFlow.pc = "wiring"
    /\ pfFlow' = [pfFlow EXCEPT !.pc = "run", !.node = "P1"]
    /\ UNCHANGED <<nodeVars, flowVars, besidePfFlow>>

\* action = node.Run(state)
PfNodeRun ==
    /\ pfFlow.pc = "run"
    /\ pfFlow.node # PfNone
    /\ \E a \in Actions :
        pfFlow' = [pfFlow EXCEPT !.pc = "route", !.action = a,
                                 !.trail = Append(@, pfFlow.node)]
    /\ UNCHANGED <<nodeVars, flowVars, besidePfFlow>>

\* the lookup of the next node
PfRoute ==
    /\ pfFlow.pc = "route"
    /\ LET next == PfLookup(pfFlow.succ[pfFlow.node], pfFlow.action)
       IN pfFlow' = [pfFlow EXCEPT !.pc = "run", !.node = next,
                                   !.last = [cur |-> pfFlow.node, a |-> pfFlow.action,
                                             next |-> next]]
    /\ UNCHANGED <<nodeVars, flowVars, besidePfFlow>>

\* for node != nil is over: return action
PfFlowReturn ==
    /\ pfFlow.pc = "run"
    /\ pfFlow.node = PfNone
    /\ pfFlow' = [pfFlow EXCEPT !.pc = "returned"]
    /\ UNCHANGED <<nodeVars, flowVars, besidePfFlow>>

PfWire == \E n \in PfNodes, arg \in PfNextArgs : PfNodeNext(n, arg)

PfFlowNext ==
    \/ PfWire
    \/ PfFlowRun
    \/ PfNodeRun
    \/ PfRoute
    \/ PfFlowReturn

PfFlowSpec == WireInit /\ [][PfFlowNext]_vars

\* ------------------------------------------------- package pocketflow, Run
\* Two goroutines call Run on one Node of package pocketflow. Run keeps its
\* channel and its results slice in the fields n.prepResults and
\* n.execResults of the Node, which every Run call and every worker reads
\* again at each use; prepRes, wg and numWorkers are locals of the call.
\* The Node is CreateNode(basenode, 0, 1): each Run has one worker.
PfRunInit ==
    /\ variant = "core_node"
    /\ NewNode(0, 1)
    /\ flaky = FALSE
    /\ failSet \in {{}, {"b"}}
    /\ NoRun
    /\ NoFlow

\* The items of a caller's State: its own, "a" for the first caller and "b"
\* for the second.
PfItems(c) == {[k \in 1..n |-> IF c = 1 THEN "a" ELSE "b"] : n \in 0..MaxItems}

\* What the worker's retry loop and fallback make of one item of a pure
\* BaseNode (maxRetries >= 0 here).
PfResult(item) ==
    IF item \in failSet THEN ExecFallback(ExecError(item, 0)) ELSE ExecValue(item)

PfInProgress(c) == pfRun.run[c].pc \notin {"idle", "done"}

\* prepRes := n.node.Prep(state); with no item Post is called at once
PfRunPrep(c) ==
    /\ ~pfRun.panic
    /\ pfRun.run[c].pc = "idle"
    /\ \E items \in PfItems(c) :
        pfRun' = [pfRun EXCEPT
                    !.run[c] = IF EmptyPrep(items)
                               THEN [@ EXCEPT !.pc = "done", !.prepRes = items,
                                              !.postPrep = items, !.postResults = <<>>]
                               ELSE [@ EXCEPT !.pc = "make", !.prepRes = items],
                    !.overlap = @ \/ \E d \in Callers \ {c} : PfInProgress(d)]
    /\ UNCHANGED <<nodeVars, flowVars, besidePfRun>>

\* n.prepResults = make(chan task, len(prepRes))
\* n.execResults = make([]string, len(prepRes))
PfRunMake(c) ==
    /\ ~pfRun.panic
    /\ pfRun.run[c].pc = "make"
    /\ LET n == Len(pfRun.run[c].prepRes)
       IN pfRun' = [pfRun EXCEPT
                      !.chanField = c,
                      !.chans[c] = [q |-> <<>>, cap |-> QueueCap(n), closed |-> FALSE],
                      !.resField = c,
                      !.slices[c] = [k \in 1..n |-> Zero],
                      !.run[c].pc = "spawn"]
    /\ UNCHANGED <<nodeVars, flowVars, besidePfRun>>

\* for i := 0; i < numWorkers; i++ { wg.Add(1); go n.worker(wg) }
PfRunSpawn(c) ==
    /\ ~pfRun.panic
    /\ pfRun.run[c].pc = "spawn"
    /\ LET ws == 1..NumWorkers(routines, Len(pfRun.run[c].prepRes))
       IN pfRun' = [pfRun EXCEPT
                      !.run[c].pc = "enqueue", !.run[c].idx = 1,
                      !.run[c].wg = Cardinality(ws), !.run[c].workers = ws,
                      !.wk[c] = [w \in Workers |->
                                    IF w \in ws THEN [pc |-> "start", ch |-> 0] ELSE @[w]]]
    /\ UNCHANGED <<nodeVars, flowVars, besidePfRun>>

\* a worker starts: `for item := range n.prepResults` reads the field once
PfWorkerBegin(c, w) ==
    /\ ~pfRun.panic
    /\ pfRun.wk[c][w].pc = "start"
    /\ pfRun' = [pfRun EXCEPT !.wk[c][w] = [pc |-> "recv", ch |-> pfRun.chanField]]
    /\ UNCHANGED <<nodeVars, flowVars, besidePfRun>>

\* n.prepResults <- task{pos: i, result: item}: the field is read at each
\* send; a send on a closed channel panics, a send on a full one blocks
PfRunSend(c) ==
    /\ ~pfRun.panic
    /\ pfRun.run[c].pc = "enqueue"
    /\ pfRun.run[c].idx <= Len(pfRun.run[c].prepRes)
    /\ LET ch == pfRun.chanField
           i == pfRun.run[c].idx
       IN IF pfRun.chans[ch].closed
          THEN pfRun' = [pfRun EXCEPT !.panic = TRUE]
          ELSE /\ Len(pfRun.chans[ch].q) < pfRun.chans[ch].cap
               /\ pfRun' = [pfRun EXCEPT
                              !.chans[ch].q = Append(@, [pos |-> i,
                                                         result |-> pfRun.run[c].prepRes[i]]),
                              !.run[c].idx = i + 1]
    /\ UNCHANGED <<nodeVars, flowVars, besidePfRun>>

\* close(n.prepResults): closing a closed channel panics
PfRunClose(c) ==
    /\ ~pfRun.panic
    /\ pfRun.run[c].pc = "enqueue"
    /\ pfRun.run[c].idx > Len(pfRun.run[c].prepRes)
    /\ LET ch == pfRun.chanField
       IN IF pfRun.chans[ch].closed
          THEN pfRun' = [pfRun EXCEPT !.panic = TRUE]
          ELSE pfRun' = [pfRun EXCEPT !.chans[ch].closed = TRUE, !.run[c].pc = "wait"]
    /\ UNCHANGED <<nodeVars, flowVars, besidePfRun>>

\* a worker takes a task from its channel, runs the retry loop and the
\* fallback on it and stores the value: n.execResults[item.pos] = ..., the
\* field read at the store; an index beyond the slice panics
PfWorkerTask(c, w) ==
    /\ ~pfRun.panic
    /\ pfRun.wk[c][w].pc = "recv"
    /\ LET ch == pfRun.wk[c][w].ch
       IN /\ pfRun.chans[ch].q # <<>>
          /\ LET t == Head(pfRun.chans[ch].q)
                 res == pfRun.resField
             IN IF t.pos > Len(pfRun.slices[res])
                THEN pfRun' = [pfRun EXCEPT !.panic = TRUE]
                ELSE pfRun' = [pfRun EXCEPT
                                 !.chans[ch].q = Tail(@),
                                 !.slices[res][SlotOf(t.pos)] = PfResult(t.result)]
    /\ UNCHANGED <<nodeVars, flowVars, besidePfRun>>

\* the range loop ends on the closed and drained channel: defer wg.Done()
PfWorkerExit(c, w) ==
    /\ ~pfRun.panic
    /\ pfRun.wk[c][w].pc = "recv"
    /\ LET ch == pfRun.wk[c][w].ch
       IN /\ pfRun.chans[ch].q = <<>>
          /\ pfRun.chans[ch].closed
    /\ pfRun' = [pfRun EXCEPT !.wk[c][w].pc = "exited", !.run[c].wg = @ - 1]
    /\ UNCHANGED <<nodeVars, flowVars, besidePfRun>>

\* wg.Wait()
PfRunWait(c) ==
    /\ ~pfRun.panic
    /\ pfRun.run[c].pc = "wait"
    /\ pfRun.run[c].wg = 0
    /\ pfRun' = [pfRun EXCEPT !.run[c].pc = "post"]
    /\ UNCHANGED <<nodeVars, flowVars, besidePfRun>>

\* return n.node.Post(state, prepRes, n.execResults...)
PfRunPost(c) ==
    /\ ~pfRun.panic
    /\ pfRun.run[c].pc = "post"
    /\ pfRun' = [pfRun EXCEPT !.run[c].pc = "done",
                              !.run[c].postPrep = pfRun.run[c].prepRes,
                              !.run[c].postResults = pfRun.slices[pfRun.resField]]
    /\ UNCHANGED <<nodeVars, flowVars, besidePfRun>>

PfRunPreps == \E c \in Callers : PfRunPrep(c)
PfRunMakes == \E c \in Callers : PfRunMake(c)
PfRunSpawns == \E c \in Callers : PfRunSpawn(c)
PfWorkerBegins == \E c \in Callers, w \in Workers : PfWorkerBegin(c, w)
PfRunSends == \E c \in Callers : PfRunSend(c)
PfRunCloses == \E c \in Callers : PfRunClose(c)
PfWorkerTasks == \E c \in Callers, w \in Workers : PfWorkerTask(c, w)
PfWorkerExits == \E c \in Callers, w \in Workers : PfWorkerExit(c, w)
PfRunWaits == \E c \in Callers : PfRunWait(c)
PfRunPosts == \E c \in Callers : PfRunPost(c)

PfRunNext ==
    \/ PfRunPreps
    \/ PfRunMakes
    \/ PfRunSpawns
    \/ PfWorkerBegins
    \/ PfRunSends
    \/ PfRunCloses
    \/ PfWorkerTasks
    \/ PfWorkerExits
    \/ PfRunWaits
    \/ PfRunPosts

PfRunSpec == PfRunInit /\ [][PfRunNext]_vars

\* ------------------------------------------------- the tool-usage ChatNode
\* NewToolUsageFlow: node := core.NewNode(chatNode, 3, 1), the node wired to
\* itself under ActionContinue and under ActionRetry, and NewFlow(node). The
\* caller runs the Flow again after it returns. A message is kept as its
\* kind; the message Node.Run hands to Post (the response Exec returned, or
\* the one of ExecFallback) is kept as what its content parses to.
MaxPosts == 5
RetryLimit == 3
ChatNodeRetries == 3
ChatNodeStage == "U1"
ChatFlow == "G1"
ExecKinds == {"unparsable", "empty", "text", "tools"}
UserInputs == {"", "text"}
PermissionActions == {ActionSuccess, ActionFailure, ActionContinue}

ChatInit ==
    /\ variant = "part_001"
    /\ NewNode(ChatNodeRetries, 1)
    /\ flaky = FALSE
    /\ failSet = {}
    /\ NoRun
    /\ startNode = [f \in Flows |-> IF f = ChatFlow THEN ChatNodeStage ELSE Nil]
    /\ successors =
           [s \in Stages |->
               IF s = ChatNodeStage
               THEN Put(Put(EmptyTable, NodeKey(ActionContinue), ChatNodeStage),
                        NodeKey(ActionRetry), ChatNodeStage)
               ELSE EmptyTable]
    /\ NoFlowRun

\* if n.errorRetryCount >= 3
MutLimitAtFour(count) == count >= RetryLimit + 1
RetryLimitReached(count) == count >= RetryLimit

\* n.errorRetryCount = 0 // Reset error retry count on success
ResetOnSuccess(count) == 0

\* Prep: with an empty conversation or isUserInputRequired it reads the
\* user's input, adds it as a message and clears the flag, or with no input
\* returns no context; otherwise, and after an input, one context.
PrepAsksUser(c) == Len(c.messages) = 0 \/ c.isUserInputRequired
ChatPrepResult(c, input) ==
    IF PrepAsksUser(c) /\ input = ""
    THEN [c EXCEPT !.prepRes = 0]
    ELSE IF PrepAsksUser(c)
    THEN [c EXCEPT !.messages = Append(@, "user"), !.isUserInputRequired = FALSE,
                   !.prepRes = 1]
    ELSE [c EXCEPT !.prepRes = 1]

\* Post, up to the tool calls: the fields and messages after it, and its
\* Action (NoAction where handleToolCalls decides).
ChatPostResult(c, results) ==
    LET at == [c EXCEPT !.before = c.errorRetryCount, !.parsed = "none", !.added = <<>>] IN
    IF Len(results) = 0
    THEN [at EXCEPT !.action = ActionFailure]
    ELSE IF RetryLimitReached(c.errorRetryCount)
    THEN [at EXCEPT !.errorRetryCount = 0, !.action = ActionFailure]
    ELSE IF results[1] = "unparsable"
    THEN [at EXCEPT !.errorRetryCount = @ + 1,
                    !.messages = @ \o <<"failed", "explanation">>,
                    !.added = <<"failed", "explanation">>,
                    !.parsed = "error", !.action = ActionRetry]
    ELSE IF results[1] = "empty"
    THEN [at EXCEPT !.parsed = "ok", !.action = ActionFailure]
    ELSE IF results[1] = "tools"
    THEN [at EXCEPT !.messages = Append(@, "assistant"), !.added = <<"assistant">>,
                    !.errorRetryCount = ResetOnSuccess(@),
                    !.parsed = "ok", !.action = NoAction]
    ELSE [at EXCEPT !.messages = Append(@, "assistant"), !.added = <<"assistant">>,
                    !.errorRetryCount = ResetOnSuccess(@),
                    !.parsed = "ok", !.isUserInputRequired = TRUE,
                    !.action = ActionSuccess]

\* handleToolCalls: ActionFailure or ActionContinue of AskToolPermission (the
\* latter after the user's words were added as a message), or the tools are
\* executed, their results added as a message, and ActionSuccess.
HandleToolCalls(c, permission) ==
    IF permission = ActionFailure THEN [c EXCEPT !.action = ActionFailure]
    ELSE IF permission = ActionContinue
    THEN [c EXCEPT !.messages = Append(@, "user"), !.added = Append(@, "user"),
                   !.action = ActionContinue]
    ELSE [c EXCEPT !.messages = Append(@, "results"), !.added = Append(@, "results"),
                   !.action = ActionSuccess]

\* workflow.Run(&state): currentWorkflow = f.startNode
ChatFlowRun ==
    /\ chat.pc = "idle"
    /\ Len(chat.returned) < MaxPosts
    /\ ~IsNilStart(startNode[ChatFlow])
    /\ chat' = [chat EXCEPT !.pc = "prep"]
    /\ UNCHANGED <<nodeVars, flowVars, besideChat>>

\* Node.Run: prepRes := n.node.Prep(state)
ChatPrep ==
    /\ chat.pc = "prep"
    /\ Len(chat.returned) < MaxPosts
    /\ \E input \in UserInputs :
           LET c == ChatPrepResult(chat, input) IN
           /\ PrepAsksUser(chat) \/ input = ""
           /\ chat' = [c EXCEPT !.pc = IF c.prepRes = 0 THEN "post" ELSE "exec",
                                !.execResult = "none"]
    /\ UNCHANGED <<nodeVars, flowVars, besideChat>>

\* Node.Run: Exec with its retries and ExecFallback leave one message, the
\* one result of the one context
ChatExec ==
    /\ chat.pc = "exec"
    /\ \E kind \in ExecKinds : chat' = [chat EXCEPT !.execResult = kind, !.pc = "post"]
    /\ UNCHANGED <<nodeVars, flowVars, besideChat>>

\* Node.Run: return n.node.Post(state, prepRes, execResults...)
ChatPost ==
    /\ chat.pc = "post"
    /\ \E permission \in PermissionActions :
           LET results == IF chat.prepRes = 0 THEN <<>> ELSE <<chat.execResult>>
               c == ChatPostResult(chat, results)
               d == IF c.action = NoAction THEN HandleToolCalls(c, permission) ELSE c IN
           /\ c.action = NoAction \/ permission = ActionSuccess
           /\ chat' = [d EXCEPT !.returned = Append(@, d.action), !.pc = "route"]
    /\ UNCHANGED <<nodeVars, flowVars, besideChat>>

\* Flow.Run: the successor under the Action Post returned, and the loop
ChatRoute ==
    /\ chat.pc = "route"
    /\ LET next == NextWorkflow(ChatFlow, ChatNodeStage, chat.action) IN
       chat' = [chat EXCEPT !.pc = IF LoopEnds(next) THEN "idle" ELSE "prep"]
    /\ UNCHANGED <<nodeVars, flowVars, besideChat>>

ChatNext ==
    \/ ChatFlowRun
    \/ ChatPrep
    \/ ChatExec
    \/ ChatPost
    \/ ChatRoute

ChatSpec == ChatInit /\ [][ChatNext]_vars

\* ------------------------------------------------- concurrent Flow.Run calls
\* Two goroutines, each running `flow := NewFlow(sharedProcessor)` and
\* `flow.Run(state)` on a State of its own: the Node (the BaseNode,
\* maxRetries, routines and the successors table) is shared, the locals of
\* Flow.Run and Node.Run belong to the call. The States hold so few items
\* that Node.Run takes its sequential path, as with the one item per State
\* and NewNode(processor, 1, 3) of the test.
ConcInit ==
    /\ variant = "part_001"
    /\ \E r \in RetriesArgs, m \in RoutinesArgs : NewNode(r, m)
    /\ flaky = FALSE
    /\ failSet \in {{}, {"b"}, ItemVals}
    /\ NoRun
    /\ NoFlow

FlowOf(c) == IF c = 1 THEN "G1" ELSE "G2"
SharedNode == "U1"
CallerPostActions == {ActionSuccess, ActionFailure}

\* execResults := make([]ExecResults, len(prepRes)): the slice is a local of
\* the call, so a call writes to and reads from its own
MutSharedBuffer(c) == 1
BufferOf(c) == c

\* The States a caller can build: Prep returns the State's items.
CallerStates ==
    {items \in PrepSeqs :
        EmptyPrep(items) \/ SinglePath(variant, NumWorkers(routines, Len(items)))}

\* flow := NewFlow(sharedProcessor); action := flow.Run(state): the start is
\* not nil and becomes the current workflow.
ConcFlowRun(c) ==
    /\ calls[c].pc = "idle"
    /\ startNode' = [startNode EXCEPT ![FlowOf(c)] = SharedNode]
    /\ ~IsNilStart(startNode'[FlowOf(c)])
    /\ \E items \in CallerStates :
        calls' = [calls EXCEPT ![c] = [@ EXCEPT !.pc = "node", !.state = items]]
    /\ UNCHANGED <<nodeVars, besideCalls, successors, flowPc, stack, states, active, marks, acts,
                   lastRoute, flowResult, lastWire>>

\* currentWorkflow.Run(state) on the shared Node: Prep, then either straight
\* to Post or the set-up of the sequential loop.
ConcPrep(c) ==
    /\ calls[c].pc = "node"
    /\ LET items == calls[c].state
           mine == [calls EXCEPT ![c] = [@ EXCEPT !.prepRes = items]]
       IN IF EmptyPrep(items)
          THEN calls' = [mine EXCEPT ![c].pc = "post"]
          ELSE calls' = [mine EXCEPT ![c].pc = "exec", ![c].pos = 1, ![c].i = 0,
                                     ![c].err = NoErr,
                                     ![BufferOf(c)].execResults =
                                         [k \in 1..Len(items) |-> Zero]]
    /\ UNCHANGED <<nodeVars, flowVars, besideCalls>>

\* the loop `for i, item := range prepRes` leaves an item: the next item, or
\* Post after the last
NextItem(cs, c) ==
    IF cs[c].pos = Len(cs[c].prepRes)
    THEN [cs EXCEPT ![c].pc = "post"]
    ELSE [cs EXCEPT ![c].pos = @ + 1, ![c].i = 0, ![c].err = NoErr]

\* One attempt of executeWithRetry: Exec on the item at hand; a nil error
\* returns the value, which the loop stores in the item's slot.
ConcExec(c) ==
    /\ calls[c].pc = "exec"
    /\ MoreAttempts(calls[c].i, maxRetries)
    /\ LET item == calls[c].prepRes[calls[c].pos]
           err == AssignErr(calls[c].err,
                            IF item \in failSet THEN ExecError(item, 0) ELSE NoErr)
       IN IF IsNil(err)
          THEN calls' = NextItem([calls EXCEPT ![BufferOf(c)].execResults[SlotOf(calls[c].pos)] =
                                                   ExecValue(item)], c)
          ELSE calls' = [calls EXCEPT ![c].i = @ + 1, ![c].err = err]
    /\ UNCHANGED <<nodeVars, flowVars, besideCalls>>

\* executeWithRetry is out of attempts: the error goes to ExecFallback, whose
\* value is stored; with no attempt made the zero value is stored.
ConcGiveUp(c) ==
    /\ calls[c].pc = "exec"
    /\ ~MoreAttempts(calls[c].i, maxRetries)
    /\ LET res == IF IsNil(calls[c].err) THEN Zero ELSE ExecFallback(calls[c].err)
       IN calls' = NextItem([calls EXCEPT ![BufferOf(c)].execResults[SlotOf(calls[c].pos)] = res],
                            c)
    /\ UNCHANGED <<nodeVars, flowVars, besideCalls>>

\* return n.node.Post(state, prepRes, execResults...), or Post(state, prepRes)
\* when Prep returned nothing; Post is user code and returns any Action.
ConcPost(c) ==
    /\ calls[c].pc = "post"
    /\ \E a \in CallerPostActions :
        calls' = [calls EXCEPT
                    ![c].pc = "route",
                    ![c].postPrep = calls[c].prepRes,
                    ![c].postResults = IF EmptyPrep(calls[c].prepRes) THEN <<>>
                                       ELSE calls[BufferOf(c)].execResults,
                    ![c].postAction = a]
    /\ UNCHANGED <<nodeVars, flowVars, besideCalls>>

\* Back in Flow.Run: finalAction = action, the successor lookup finds
\* nothing and Flow.Run returns finalAction.
ConcReturn(c) ==
    /\ calls[c].pc = "route"
    /\ LET final == AssignFinal(InitFinal, [a |-> RunResult(calls[c].postAction), src |-> "post"])
       IN /\ LoopEnds(NextWorkflow(FlowOf(c), SharedNode, final.a))
          /\ calls' = [calls EXCEPT ![c].pc = "returned", ![c].returned = final.a]
    /\ UNCHANGED <<nodeVars, flowVars, besideCalls>>

ConcFlowRuns == \E c \in Callers : ConcFlowRun(c)
ConcPreps == \E c \in Callers : ConcPrep(c)
ConcExecs == \E c \in Callers : ConcExec(c)
ConcGiveUps == \E c \in Callers : ConcGiveUp(c)
ConcPosts == \E c \in Callers : ConcPost(c)
ConcReturns == \E c \in Callers : ConcReturn(c)

ConcNext ==
    \/ ConcFlowRuns
    \/ ConcPreps
    \/ ConcExecs
    \/ ConcGiveUps
    \/ ConcPosts
    \/ ConcReturns

ConcSpec == ConcInit /\ [][ConcNext]_vars

\* ================================================================ claims
Finished == pc = "done" /\ N >= 1
ExecInProgress(i) == \E p \in Procs : frame[p].pc = "exec" /\ frame[p].pos = i
FallbackInProgress(i) == \E p \in Procs : frame[p].pc = "fallback" /\ frame[p].pos = i

\* C1: when Prep returned n >= 1 items, Post receives exactly n results and
\* the i-th is the value of a successful Exec(prep[i]) or the value of
\* ExecFallback called with the error of the last failed Exec(prep[i]).
C1_ResultAlignment ==
    Finished =>
        /\ Len(postResults) = N
        /\ \A i \in 1..N :
            \/ okAt[i] > 0 /\ postResults[i] = ExecValue(prepRes[i])
            \/ /\ lastErr[i] # NoErr
               /\ fbArg[i] = lastErr[i]
               /\ postResults[i] = ExecFallback(lastErr[i])

\* C2: for every integer maxRetries and every item i of a non-empty prep,
\* Exec(prep[i]) is invoked at least once and at most maxRetries + 1 times
\* during one Run.
C2_AttemptsBetweenOneAndBudget ==
    Finished => \A i \in 1..N : 1 <= execCalls[i] /\ execCalls[i] <= maxRetries + 1

\* C3 (as claimed): at the end of a Run, Exec(prep[i]) was invoked exactly
\* maxRetries + 1 times if and only if ExecFallback was invoked for item i.
\* Stated for maxRetries >= 0, where the retry loop runs at least once.
C3_BudgetUsedIffFallback ==
    (Finished /\ maxRetries >= 0) => \A i \in 1..N : (execCalls[i] = maxRetries + 1) <=> (fbCalls[i] >= 1)

\* C3 (amended): ExecFallback is invoked for item i if and only if
\* Exec(prep[i]) was invoked exactly maxRetries + 1 >= 1 times and none of
\* these invocations succeeded.
C3_FallbackIffAllAttemptsFailed ==
    Finished =>
        \A i \in 1..N :
            (fbCalls[i] >= 1)
            <=> (execCalls[i] = maxRetries + 1 /\ execCalls[i] >= 1 /\ okAt[i] = 0)

C3_Witness ==
    /\ Finished
    /\ maxRetries = 1
    /\ \E i \in 1..N : execCalls[i] = 2 /\ okAt[i] = 2 /\ fbCalls[i] = 0
    /\ \E i \in 1..N : execCalls[i] = 2 /\ okAt[i] = 0 /\ fbCalls[i] = 1

\* C4: once an Exec(prep[i]) call has returned without error, no further
\* Exec call is made for item i, ExecFallback is not called for i, and slot i
\* holds the successful value, also in what Post receives.
C4_StopAtFirstSuccess ==
    \A i \in 1..N :
        okAt[i] > 0 =>
            /\ execCalls[i] = okAt[i]
            /\ ~ExecInProgress(i)
            /\ fbCalls[i] = 0
            /\ execResults[i] = ExecValue(prepRes[i])
            /\ (postCalls >= 1 => postResults[i] = ExecValue(prepRes[i]))

\* prep [a, b], maxRetries 1, 2 workers, Exec(b) failing once and then
\* succeeding: 3 Exec calls in total and no ExecFallback call.
C4_Witness ==
    /\ Finished
    /\ prepRes = <<"a", "b">>
    /\ maxRetries = 1
    /\ Cardinality(ran) = 2
    /\ execCalls = <<1, 2>>
    /\ okAt = <<1, 2>>
    /\ fbCalls = <<0, 0>>
    /\ postResults = <<ExecValue("a"), ExecValue("b")>>

\* C5: when all maxRetries + 1 Exec attempts for item i have failed
\* (maxRetries >= 0), ExecFallback is called exactly once for i, after the
\* last attempt and with the error of that last attempt, and Post sees its
\* return value in slot i.
C5_FallbackOnExhaustion ==
    \A i \in 1..N :
        /\ (maxRetries >= 0 /\ execCalls[i] = maxRetries + 1 /\ okAt[i] = 0
              /\ ~ExecInProgress(i))
           => /\ fbCalls[i] = 1
              /\ fbArg[i] = lastErr[i]
              /\ (flaky => lastErr[i] = ExecError(prepRes[i], maxRetries + 1))
              /\ (~FallbackInProgress(i) => execResults[i] = ExecFallback(lastErr[i]))
              /\ (postCalls >= 1 => postResults[i] = ExecFallback(lastErr[i]))
        /\ fbCalls[i] >= 1 => execCalls[i] = maxRetries + 1 /\ ~ExecInProgress(i)

\* one item, every Exec failing, maxRetries 2, one worker: 3 Exec calls,
\* 1 ExecFallback call, Post called with one prep item and one result.
C5_Witness ==
    /\ Finished
    /\ N = 1
    /\ maxRetries = 2
    /\ routines = 1
    /\ flaky
    /\ execCalls = <<3>>
    /\ fbCalls = <<1>>
    /\ fbArg = <<ExecError(prepRes[1], 3)>>
    /\ Len(postPrep) = 1
    /\ postResults = <<ExecFallback(ExecError(prepRes[1], 3))>>

\* C6: whatever Exec calls fail, a Run that has ended has called Post
\* exactly once and returns exactly the Action Post returned; before that
\* nothing has been returned.
C6_RunReturnsPostAction ==
    /\ pc = "done" => postCalls = 1 /\ returned = postAction /\ returned \in Actions
    /\ pc # "done" => returned = NoAction /\ postCalls = 0

C6_Witness ==
    /\ Finished
    /\ N = 2
    /\ \A i \in 1..N : fbCalls[i] = 1
    /\ returned = ActionSuccess

\* C7: with an empty prep, Run goes from Prep straight to Post: no Exec or
\* ExecFallback call, no worker, no fan-out step; Post is called once with
\* the empty prep and no results and Run returns Post's Action.
C7_EmptyPrepShortCircuit ==
    (prepCalls = 1 /\ N = 0) =>
        /\ pc \in {"post", "done"}
        /\ ran = {}
        /\ \A p \in Procs : frame[p] = IdleFrame
        /\ queue = <<>> /\ ~closed /\ wgCount = 0
        /\ execCalls = <<>> /\ fbCalls = <<>> /\ execResults = <<>>
        /\ pc = "done" =>
            /\ postCalls = 1
            /\ postPrep = <<>>
            /\ postResults = <<>>
            /\ returned = postAction

C7_Witness ==
    /\ pc = "done"
    /\ N = 0
    /\ postCalls = 1
    /\ returned = ActionContinue
    /\ routines = 1
    /\ maxRetries = 1

\* C8: in the multi-worker path Post is called only after every worker of
\* the Run has exited: every slot has been written (part_001), no Exec or
\* ExecFallback call is in progress when Post starts, and none starts later.
C8_PostAfterWorkers ==
    (pc \in {"post", "done"} /\ ran # {}) =>
        /\ \A w \in ran : frame[w].pc = "exited"
        /\ \A p \in Procs : ~Busy(p)
        /\ wgCount = 0
        /\ queue = <<>> /\ closed
        /\ variant = "part_001" => \A i \in 1..N : writes[i] >= 1
        /\ ~postBusy

C8_Witness ==
    /\ pc = "done"
    /\ variant = "part_001"
    /\ Cardinality(ran) = 2
    /\ \A i \in 1..N : writes[i] = 1
    /\ \E i \in 1..N : fbCalls[i] = 1
    /\ \E i \in 1..N : okAt[i] = 1

\* C9: for a BaseNode whose Exec outcome depends only on the item, the
\* results Post receives are a function of the prep items, the BaseNode and
\* maxRetries alone: the same for every routines value and interleaving.
PureResult(item) ==
    IF maxRetries < 0 THEN Zero
    ELSE IF item \in failSet THEN ExecFallback(ExecError(item, 0))
    ELSE ExecValue(item)

C9_PureResultsIndependentOfWorkers ==
    (~flaky /\ postCalls >= 1) =>
        postResults = [i \in 1..N |-> PureResult(prepRes[i])]

C9_Witness ==
    /\ Finished
    /\ ~flaky
    /\ failSet = {"b"}
    /\ prepRes = <<"b", "a">>
    /\ Cardinality(ran) = 2
    /\ maxRetries = 1
    /\ postResults = <<ExecFallback(ExecError("b", 0)), ExecValue("a")>>

\* C10: routines is always >= 1, an argument below 1 being stored as 1, and
\* a Run with n >= 1 items uses min(routines, n) workers, between 1 and n.
Min(a, b) == IF a < b THEN a ELSE b
WorkersUsed == IF ran = {} THEN 1 ELSE Cardinality(ran)

C10_RoutinesClampedWorkersMin ==
    /\ routines >= 1
    /\ routines = (IF routinesArg < 1 THEN 1 ELSE routinesArg)
    /\ (N >= 1 /\ pc # "idle") =>
        /\ numWorkers = Min(routines, N)
        /\ 1 <= numWorkers /\ numWorkers <= N
        /\ pc # "spawn" => WorkersUsed = numWorkers
        /\ (pc = "single") => ran = {}

C10_Witness ==
    /\ Finished
    /\ routinesArg = -1
    /\ routines = 1
    /\ N = 2
    /\ numWorkers = 1


\* C26: the attempts an item gets depend on that item's Exec outcomes alone:
\* at the end of a Run every item has had Exec called up to its own first
\* success, or maxRetries + 1 times when no call succeeded, whatever the
\* failures on the other items and whatever the number of workers.
Budget == IF maxRetries + 1 > 0 THEN maxRetries + 1 ELSE 0
C26_BudgetPerItem ==
    /\ \A i \in 1..N : execCalls[i] <= Budget
    /\ Finished =>
         \A i \in 1..N :
            IF okAt[i] > 0 THEN execCalls[i] = okAt[i] ELSE execCalls[i] = Budget
C26_Witness ==
    /\ Finished
    /\ maxRetries = 1
    /\ N = 2
    /\ execCalls = <<2, 2>>
    /\ okAt = <<0, 2>>
    /\ fbCalls = <<1, 0>>


\* Item i of the Run is dealt with: its slot is written and no Exec or
\* ExecFallback call on it is in progress.
Settled(i) == writes[i] = 1 /\ ~ExecInProgress(i) /\ ~FallbackInProgress(i)

\* C27: a Run of part_001 with min(routines, n) = 1 starts no goroutine
\* and no channel, and deals with the items in index order on the calling
\* goroutine: when the first Exec call on an item starts, every item before
\* it is settled, all its Exec attempts and its ExecFallback call over.
C27_SingleWorkerInOrder ==
    (variant = "part_001" /\ pc # "idle" /\ N >= 1 /\ Min(routines, N) = 1) =>
        /\ pc \in {"single", "post", "done"}
        /\ ran = {}
        /\ queue = <<>> /\ ~closed /\ wgCount = 0
        /\ \A w \in Workers : frame[w].pc = "idle"
        /\ \A i \in 1..N, j \in 1..N :
              (i < j /\ (execCalls[j] > 0 \/ writes[j] > 0)) => Settled(i)
C27_Witness ==
    /\ variant = "part_001"
    /\ pc = "single"
    /\ routines = 1
    /\ N = 2
    /\ maxRetries = 1
    /\ execCalls = <<2, 1>>
    /\ fbCalls = <<1, 0>>
    /\ ExecInProgress(2)


\* C28: a Run calls Prep once, before every Exec call, and Post once, when
\* no item is left to take and no Exec or ExecFallback call is in progress
\* or still to come; the Exec attempts that fail repeat neither.
C28_PrepOnceThenPostOnce ==
    /\ pc = "idle" => (prepCalls = 0 /\ execCalls = <<>> /\ postCalls = 0)
    /\ pc # "idle" => prepCalls = 1
    /\ postCalls = (IF pc = "done" THEN 1 ELSE 0)
    /\ postCalls = 1 =>
          /\ ~postBusy
          /\ queue = <<>>
          /\ \A p \in Procs : ~Busy(p) /\ frame[p].pc \in {"idle", "exited"}
          /\ N >= 1 => idx > N
C28_Witness ==
    /\ Finished
    /\ prepCalls = 1
    /\ postCalls = 1
    /\ maxRetries = 2
    /\ N = 2
    /\ execCalls = <<3, 2>>
    /\ fbCalls = <<1, 0>>


\* The Run has started its workers.
PoolRun == ran # {}
InQueue(i) == Cardinality({k \in 1..Len(queue) : queue[k] = i})
Held(i) == Cardinality({p \in Procs : Busy(p) /\ frame[p].pos = i})
\* Index i is in exactly one place once enqueued: in the channel, with one
\* worker, or done with its slot written once, by the successful Exec or by
\* ExecFallback and not by both.
ExactlyOnce(i) ==
    /\ InQueue(i) + Held(i) + writes[i] = (IF i < idx THEN 1 ELSE 0)
    /\ writes[i] + (IF FallbackInProgress(i) THEN 1 ELSE 0)
           = (IF okAt[i] > 0 THEN 1 ELSE 0) + fbCalls[i]

\* C29: in a Run that uses the workers, every index is enqueued once, taken
\* by one worker, and its slot is written once, by a success or by a
\* fallback and never by both; when Post is called every slot is written.
C29_EachItemHandledOnce ==
    PoolRun =>
        /\ \A i \in 1..N : ExactlyOnce(i)
        /\ pc \in {"post", "done"} => \A i \in 1..N : writes[i] = 1

\* The same for the Runs in which the retry loop is entered (maxRetries >= 0).
ItemsHandledOnceWithAttempts == maxRetries >= 0 => C29_EachItemHandledOnce


ExecsInProgress == {p \in Procs : frame[p].pc = "exec"}

\* C30: during a Run over n >= 1 items at most min(routines, n) Exec calls
\* are in progress at once, and no item has two Exec calls in progress.
C30_ExecsInProgressBounded ==
    /\ N >= 1 => Cardinality(ExecsInProgress) <= Min(routines, N)
    /\ \A p, q \in ExecsInProgress : frame[p].pos = frame[q].pos => p = q

C30_Witness ==
    /\ routines = 2
    /\ N = 2
    /\ Cardinality(ExecsInProgress) = 2
    /\ \E p \in ExecsInProgress : frame[p].i > 0


\* The producer is at a send and the channel is full.
ProducerBlocked == pc = "enqueue" /\ idx <= N /\ ~(Len(queue) < QueueCap(N))
\* A worker that has not exited while Run is past wg.Wait().
WorkerLeftBehind == \E w \in ran : frame[w].pc # "exited"

\* C31: a Run whose Exec and ExecFallback calls all return reaches Post: the
\* producer is never blocked at a send, no worker is left when the wait is
\* over, and every Run that called Prep calls Post.
C31_RunReachesPost ==
    /\ [](~ProducerBlocked)
    /\ [](pc \in {"post", "done"} => ~WorkerLeftBehind)
    /\ (prepCalls = 1) ~> (postCalls = 1)

C31_Witness ==
    /\ postCalls = 1
    /\ Cardinality(ran) = 2
    /\ N = 2
    /\ closed
    /\ queue = <<>>
    /\ \A w \in ran : frame[w].pc = "exited"
    /\ \E i \in 1..N : fbCalls[i] = 1


\* The Run works with one worker: the sequential path of part_001, the pool
\* of one goroutine of core_node.
OneWorker == pc # "idle" /\ N >= 1 /\ Min(routines, N) = 1
\* Every call on item i is over, the item having a value or no attempt.
CallsOver(i) ==
    /\ ~ExecInProgress(i)
    /\ ~FallbackInProgress(i)
    /\ okAt[i] > 0 \/ fbCalls[i] = 1 \/ ~MoreAttempts(0, maxRetries)
\* What the calls made on item i leave in its slot.
SlotFromCalls(i) ==
    IF okAt[i] > 0 THEN ExecValue(prepRes[i])
    ELSE IF fbCalls[i] = 1 THEN ExecFallback(fbArg[i])
    ELSE Zero

\* C35: with one worker both versions of Run do what one sequential loop
\* does, whichever version runs: one call at a time, item after item in
\* index order, on each item Exec until the first success or the end of the
\* budget and then ExecFallback with the last error, never both; Post gets
\* the prep items and the slots these calls filled.
C35_OneWorkerSameCallsSameResults ==
    OneWorker =>
        /\ Cardinality({p \in Procs : Busy(p)}) <= 1
        /\ \A i \in 1..N, j \in 1..N : (i < j /\ execCalls[j] > 0) => CallsOver(i)
        /\ \A i \in 1..N :
            /\ execCalls[i] <= (IF maxRetries < 0 THEN 0 ELSE maxRetries + 1)
            /\ okAt[i] > 0 => (okAt[i] = execCalls[i] /\ fbCalls[i] = 0)
            /\ fbCalls[i] <= 1
            /\ fbCalls[i] = 1 =>
                (execCalls[i] = maxRetries + 1 /\ okAt[i] = 0 /\ fbArg[i] = lastErr[i])
        /\ postCalls >= 1 =>
            /\ \A i \in 1..N : CallsOver(i)
            /\ postPrep = prepRes
            /\ postResults = [i \in 1..N |-> SlotFromCalls(i)]

C35_Witness ==
    /\ variant = "core_node"
    /\ OneWorker
    /\ ran = {1}
    /\ N = 2
    /\ maxRetries = 1
    /\ execCalls = <<2, 1>>
    /\ fbCalls = <<1, 0>>
    /\ postCalls = 1
    /\ postResults = <<ExecFallback(lastErr[1]), ExecValue(prepRes[2])>>

\* ---------------------------------------------------------- claims, Flow
FlowRunning == flowPc = "running"
FlowReturned == flowPc = "returned"
\* The Action the current stage of the innermost Flow.Run returned has no
\* entry in the stage's table nor in that Flow's.
Unresolved ==
    /\ FlowRunning
    /\ Top.at = "route"
    /\ successors[Top.cur][Top.final.a] = Nil
    /\ successors[Top.flow][Top.final.a] = Nil

\* C11: when the current stage of a Flow.Run returned an Action a that has a
\* successor neither in the stage's table nor in the Flow's own, the next
\* step of that Flow.Run is its return, with a as the result, and no other
\* stage is run, whatever is wired under other Actions.
C11_EndsOnUnwiredAction ==
    [][Unresolved =>
         /\ Len(stack') = Len(stack) - 1
         /\ marks' = marks
         /\ active' = {}
         /\ IF Len(stack) = 1
            THEN FlowReturned' /\ flowResult'.a = Top.final.a
            ELSE /\ stack'[Len(stack')].at = "route"
                 /\ stack'[Len(stack')].final.a = Top.final.a]_vars
C11_Witness ==
    /\ FlowReturned
    /\ startNode["G1"] = "U1"
    /\ successors["U1"][ActionContinue] = "U2"
    /\ acts = <<ActionFailure>>
    /\ marks = <<"U1">>
    /\ flowResult.a = ActionFailure

\* A Flow.Run is about to look up the successor for the Action a stage
\* returned to it.
Routing == FlowRunning /\ Top.at = "route"

\* C12: when the current stage's table has a successor for the returned
\* Action, that successor is the next stage, also when the Flow's own table
\* has one for the same Action; the Flow's is the next stage only when the
\* current stage has none.
C12_StageEdgeBeforeFlowEdge ==
    [][Routing =>
         LET a == Top.final.a
             own == successors[Top.cur][a]
             shared == successors[Top.flow][a]
         IN /\ own # Nil =>
                 /\ Len(stack') = Len(stack)
                 /\ stack'[Len(stack)].cur = own
                 /\ stack'[Len(stack)].at = "call"
            /\ (own = Nil /\ shared # Nil) =>
                 /\ Len(stack') = Len(stack)
                 /\ stack'[Len(stack)].cur = shared
                 /\ stack'[Len(stack)].at = "call"]_vars
C12_Witness ==
    /\ startNode["G1"] = "U1"
    /\ successors["U1"][ActionDefault] = "U2"
    /\ successors["G1"][ActionDefault] = "U1"
    /\ acts = <<ActionDefault>>
    /\ marks = <<"U1">>
    /\ active = {"U2"}

\* No stage is run and no State is written in the step.
NothingRun ==
    /\ states' = states
    /\ marks' = marks
    /\ acts' = acts
    /\ active' = {}
    /\ active = {}

\* C13: a Flow.Run call on a Flow whose start is nil returns ActionFailure in
\* one step in which no stage is run (no Prep, Exec, ExecFallback or Post
\* call) and the State is left as it is; the same for a nested call.
C13_NilStartReturnsFailure ==
    [][/\ (flowPc = "wiring" /\ flowPc' # "wiring" /\ startNode["G1"] = Nil) =>
            /\ FlowReturned'
            /\ flowResult'.a = ActionFailure
            /\ NothingRun
       /\ (FlowRunning /\ Top.at = "call" /\ Top.cur \in Flows
                       /\ startNode[Top.cur] = Nil) =>
            /\ Len(stack') = Len(stack)
            /\ stack'[Len(stack)].at = "route"
            /\ stack'[Len(stack)].final.a = ActionFailure
            /\ NothingRun]_vars
C13_Witness ==
    /\ FlowReturned
    /\ startNode["G1"] = Nil
    /\ flowResult.a = ActionFailure
    /\ states = << <<>> >>

\* C14: no Default edge stands in for a missing one. GetSuccessor(a) is nil
\* for every stage with nothing stored under a; and a Flow.Run whose current
\* stage returned an Action other than Default with no entry of its own
\* returns with that Action, whatever is wired under Default on the stage
\* or on the Flow.
C14_NoDefaultSubstitution ==
    /\ [](\A s \in Stages, a \in Actions :
            successors[s][a] = Nil => GetSuccessor(s, a) = Nil)
    /\ [][(Unresolved /\ Top.final.a # ActionDefault) =>
            /\ Len(stack') = Len(stack) - 1
            /\ NothingRun
            /\ Len(stack) = 1 => (FlowReturned' /\ flowResult' = Top.final)
            /\ Len(stack) > 1 => stack'[Len(stack')].final = Top.final]_vars
C14_Witness ==
    /\ FlowReturned
    /\ startNode["G1"] = "U1"
    /\ successors["U1"][ActionDefault] = "U2"
    /\ successors["G1"][ActionDefault] = "U2"
    /\ acts = <<ActionContinue>>
    /\ marks = <<"U1">>
    /\ flowResult.a = ActionContinue

SelfLoop ==
    /\ startNode["G1"] = "U1"
    /\ successors = [s \in Stages |->
                       IF s = "U1" THEN [EmptyTable EXCEPT ![ActionContinue] = "U1"]
                       ELSE EmptyTable]
\* The histories hold every run so far (none was dropped past MaxMarks).
AllLogged == Len(acts) < MaxMarks \/ acts[MaxMarks] # ActionContinue

\* C16: in the self-loop, U1 runs once more after each Continue its Post
\* returns and never after another Action: with k Continue and then an
\* Action a other than Continue, U1 has run exactly k + 1 times, Flow.Run
\* returns a, and the State holds the k + 1 mutations in order (4 Continue
\* then Success: 5 runs, the result Success).
C16_SelfLoopRunsUntilOtherAction ==
    (SelfLoop /\ AllLogged) =>
        /\ Len(marks) = Len(acts)
        /\ states[1] = marks
        /\ \A i \in 1..Len(marks) : marks[i] = "U1"
        /\ \A i \in 1..(Len(acts) - 1) : acts[i] = ActionContinue
        /\ (acts # <<>> /\ acts[Len(acts)] # ActionContinue) =>
              /\ active = {}
              /\ FlowReturned \/ (FlowRunning /\ Top.at = "route")
        /\ FlowReturned =>
              /\ acts # <<>>
              /\ acts[Len(acts)] # ActionContinue
              /\ flowResult.a = acts[Len(acts)]
C16_Witness ==
    /\ SelfLoop
    /\ FlowReturned
    /\ acts = <<ActionContinue, ActionContinue, ActionContinue, ActionContinue,
                ActionSuccess>>
    /\ states[1] = <<"U1", "U1", "U1", "U1", "U1">>
    /\ flowResult.a = ActionSuccess

Resolved(s, f, a) == IF successors[s][a] # Nil THEN successors[s][a] ELSE successors[f][a]

\* C18, as stated: when a nested Flow reached from a Node of the outer Flow
\* has returned an Action, the outer Flow.Run takes as next stage what the
\* table of that Node, and then the outer Flow's own, holds for the Action.
C18_ResolvesAgainstEnteringStage ==
    (lastRoute.cur \in Flows /\ lastRoute.from \in Nodes) =>
        lastRoute.next = Resolved(lastRoute.from, lastRoute.flow, lastRoute.a)

\* C18, amended: when a nested Flow has returned an Action, the outer
\* Flow.Run takes as next stage what the nested Flow's own table, and then
\* the outer Flow's, holds for the Action; the table of the stage the nested
\* Flow was reached from is not read again. A nested Flow with a start has
\* returned the Action because its own table holds nothing for it, so the
\* next stage is then the one of the outer Flow's table, or none.
C18_ResolvesAgainstNestedFlow ==
    lastRoute.cur \in Flows =>
        /\ lastRoute.next = Resolved(lastRoute.cur, lastRoute.flow, lastRoute.a)
        /\ startNode[lastRoute.cur] # Nil =>
              lastRoute.next = successors[lastRoute.flow][lastRoute.a]
C18_Witness ==
    /\ FlowReturned
    /\ lastRoute.flow = "G1"
    /\ lastRoute.from = "U1"
    /\ lastRoute.cur = "G2"
    /\ lastRoute.a = ActionContinue
    /\ successors["U1"][ActionContinue] = "G2"
    /\ lastRoute.next = Nil
    /\ marks = <<"U1", "U2">>
    /\ flowResult.a = ActionContinue

\* C19, as stated: every Flow.Run call returns in the end, whatever is wired
\* and whatever Actions the stages return, every stage Run returning.
C19_AlwaysReturns == FlowRunning ~> FlowReturned

\* C19, amended: a Flow.Run call never stops between stages: after a stage
\* has returned it either returns itself or starts the next stage, every
\* stage Run returning; it returns when, and only when, a stage has returned
\* an Action with no successor in the stage's table and the Flow's. On a
\* cycle whose stages keep returning wired Actions it runs for ever.
C19_ReturnsOrRunsNextStage ==
    /\ (FlowRunning /\ active = {}) ~> (FlowReturned \/ active # {})
    /\ (active # {}) ~> (active = {})
    /\ Unresolved ~> FlowReturned
    /\ []((FlowReturned /\ startNode["G1"] # Nil) =>
            /\ lastRoute.next = Nil
            /\ successors[lastRoute.cur][lastRoute.a] = Nil
            /\ successors[lastRoute.flow][lastRoute.a] = Nil
            /\ flowResult.a = lastRoute.a)
C19_Witness ==
    /\ SelfLoop
    /\ FlowRunning
    /\ Len(acts) = MaxMarks
    /\ \A i \in 1..MaxMarks : acts[i] = ActionContinue
    /\ active = {"U1"}

\* The Actions Post calls have returned so far in the Flow.Run.
PostActions == {acts[i] : i \in 1..Len(acts)}
\* The Action is the one the latest Post call returned.
FromPost(final) == acts # <<>> /\ final = [a |-> acts[Len(acts)], src |-> "post"]

\* C20, as stated: the Action a Flow.Run returned is one that a Post call
\* returned during that Flow.Run.
C20_ResultIsSomePostAction ==
    FlowReturned => flowResult.a \in PostActions

\* C20, amended: the Action a stage's Run has returned to a Flow.Run, and the
\* Action the Flow.Run returns, is the Action the latest Post call returned,
\* but for the Run of a Flow whose start is nil: that one returns
\* ActionFailure, which comes from the core and from no Post call. The
\* ActionSuccess that Flow.Run starts from is never returned.
C20_ResultIsPostActionOrNilFailure ==
    /\ \A k \in 1..Len(stack) :
          stack[k].at = "route" =>
             IF stack[k].cur \in Flows /\ startNode[stack[k].cur] = Nil
             THEN stack[k].final = NilFailure
             ELSE FromPost(stack[k].final)
    /\ FlowReturned =>
          IF startNode["G1"] = Nil \/ (lastRoute.cur \in Flows /\ startNode[lastRoute.cur] = Nil)
          THEN flowResult = NilFailure
          ELSE FromPost(flowResult)
C20_Witness ==
    /\ FlowReturned
    /\ startNode = [f \in Flows |-> IF f = "G1" THEN "U1" ELSE Nil]
    /\ acts = <<ActionContinue>>
    /\ lastRoute.cur = "G2"
    /\ flowResult = NilFailure

\* -------------------------------------------------------- claims, wiring
\* The step is an AddSuccessor call on stage s (the call is in lastWire').
WiringCallOn(S) == lastWire'.on \in S

\* C21: a Node.AddSuccessor call with a nil stage, with an Action or
\* without, leaves every successor table as it is: nothing is added and the
\* entry under that Action (or under Default) is kept.
C21_NodeNilSuccessorIsNoOp ==
    [][(WiringCallOn(Nodes) /\ lastWire'.w = Nil) =>
          /\ successors' = successors
          /\ lastWire'.ret = Nil]_vars
C21_Witness ==
    /\ lastWire = [on |-> "U1", w |-> Nil, arg |-> ActionContinue, old |-> "U2",
                   ret |-> Nil]
    /\ successors["U1"][ActionContinue] = "U2"

C23_AddSuccessorOverwritesOneEntry ==
    [][(WiringCallOn(Stages) /\ lastWire'.w # Nil /\ lastWire'.arg # NoAction) =>
          LET on == lastWire'.on
              a == lastWire'.arg
          IN /\ successors'[on][a] = lastWire'.w
             /\ lastWire'.old = successors[on][a]
             /\ lastWire'.ret = lastWire'.w
             /\ \A s \in Stages, b \in Actions :
                   (s # on \/ b # a) => successors'[s][b] = successors[s][b]]_vars
C23_Witness ==
    /\ lastWire = [on |-> "G1", w |-> "G2", arg |-> ActionDefault, old |-> "U2",
                   ret |-> "G2"]
    /\ successors["G1"][ActionDefault] = "G2"
    /\ successors["U1"][ActionContinue] = "U2"

OwnResult(item) ==
    IF maxRetries < 0 THEN Zero
    ELSE IF item \in failSet THEN ExecFallback(ExecError(item, 0))
    ELSE ExecValue(item)

NestedReturned ==
    /\ FlowRunning
    /\ Top.at = "route"
    /\ Top.cur \in Flows
    /\ startNode[Top.cur] # Nil

\* C32: a Flow with a start that has returned an Action holds nothing for
\* that Action in its own table, so the Flow that runs it as a stage takes
\* the next stage from its own table.
C32_ReturnedActionHasNoOwnEdge ==
    /\ (FlowReturned /\ startNode["G1"] # Nil) => successors["G1"][flowResult.a] = Nil
    /\ NestedReturned =>
        /\ successors[Top.cur][Top.final.a] = Nil
        /\ NextWorkflow(Top.flow, Top.cur, Top.final.a) = successors[Top.flow][Top.final.a]

C32_Witness ==
    /\ NestedReturned
    /\ Top.flow = "G1"
    /\ Top.cur = "G2"
    /\ successors["G2"][ActionDefault] = "U2"
    /\ marks = <<"U1", "U2">>
    /\ acts = <<ActionDefault, ActionContinue>>
    /\ Top.final.a = ActionContinue

\* ---------------------------------------------------- claims, GetSuccessors
\* C33: a write to, or a delete from, the map GetSuccessors returned leaves
\* what the Node's GetSuccessor returns as it was.
C33_ReturnedMapIsACopy ==
    [][lastWire'.on = HeldMap => \A a \in Actions : GetSuccessor("U1", a)' = GetSuccessor("U1", a)]_vars

\* ------------------------------------------------------------ claims, Retry
\* The latest lookup of Flow.Run followed a Node's Post that returned Retry.
RetryReturned == lastRoute.a = ActionRetry /\ lastRoute.cur \in Nodes

C36_PfFollowsActionThenDefault ==
    LET l == pfFlow.last
        table == pfFlow.succ[l.cur]
    IN l.cur # PfNone =>
        /\ table[l.a] # PfNone => l.next = table[l.a]
        /\ (table[l.a] = PfNone /\ table[PfDefault] # PfNone) => l.next = table[PfDefault]
        /\ (table[l.a] = PfNone /\ table[PfDefault] = PfNone) <=> l.next = PfNone
        /\ pfFlow.pc = "returned" => (l.next = PfNone /\ pfFlow.action = l.a)
        /\ (pfFlow.pc = "run" /\ l.next # PfNone) => pfFlow.node = l.next

C36_Witness ==
    /\ pfFlow.pc = "returned"
    /\ pfFlow.succ["P1"][ActionContinue] = "P2"
    /\ pfFlow.succ["P1"][PfDefault] = "P3"
    /\ pfFlow.trail = <<"P1", "P3">>
    /\ pfFlow.last = [cur |-> "P3", a |-> ActionSuccess, next |-> PfNone]
    /\ pfFlow.action = ActionSuccess

\* C37: in package pocketflow the results a Run hands to Post are as many
\* as the prep items of that Run and the i-th is the one made from the i-th
\* item, also when two Run calls on the Node overlap.
C37_PfPostGetsOwnResults ==
    \A c \in Callers :
        pfRun.run[c].pc = "done" =>
            /\ pfRun.run[c].postPrep = pfRun.run[c].prepRes
            /\ pfRun.run[c].postResults =
                   [k \in 1..Len(pfRun.run[c].prepRes) |-> PfResult(pfRun.run[c].prepRes[k])]

\* The same for the Run calls that do not overlap.
PfAloneGetsOwnResults == ~pfRun.overlap => C37_PfPostGetsOwnResults

\* ------------------------------------------------------ claims, self-nested
\* The Actions under which the Flow is its own successor.
SelfWired == {a \in Actions : successors["G1"][a] = "G1"}
LastAct == acts[Len(acts)]
\* The inner stage is about to run or is running.
AtInnerStage == FlowRunning /\ Top.cur \in Nodes /\ Top.at \in {"call", "in"}

\* C38: each return of a self-wired Action by the inner stage adds one
\* nested Flow.Run call, as many as there are such returns; once the inner
\* stage returns an Action b that is not wired, no stage runs any more and
\* every call, down to the outermost, returns b.
C38_SelfNestingGrowsThenUnwinds ==
    /\ (flowPc # "wiring" /\ \A i \in 1..Len(acts) : acts[i] \in SelfWired) =>
            /\ FlowRunning
            /\ Len(stack) = (IF AtInnerStage THEN 1 + Len(acts) ELSE Len(acts))
    /\ (acts # <<>> /\ LastAct \notin SelfWired) =>
            /\ active = {}
            /\ \/ FlowReturned /\ flowResult.a = LastAct
               \/ FlowRunning /\ Top.at = "route" /\ Top.final.a = LastAct

C38_Witness ==
    /\ successors["G1"][ActionSuccess] = "G1"
    /\ acts = <<ActionSuccess, ActionSuccess, ActionFailure>>
    /\ FlowRunning
    /\ Len(stack) = 2
    /\ Top.at = "route"
    /\ Top.cur = "G1"
    /\ Top.final.a = ActionFailure


\* --------------------------------------------------------- claims, ChatNode
\* The number of ActionRetry at the end of a history of returned Actions.
RECURSIVE TrailingRetries(_)
TrailingRetries(seq) ==
    IF Len(seq) = 0 \/ seq[Len(seq)] # ActionRetry THEN 0
    ELSE 1 + TrailingRetries(SubSeq(seq, 1, Len(seq) - 1))

\* Post has just returned chat.action.
PostReturned == chat.pc = "route"
ReturnedBefore == SubSeq(chat.returned, 1, Len(chat.returned) - 1)

\* C39: the tool-usage ChatNode never returns ActionRetry more than 3 times
\* in a row: a Post whose parse of the response fails increments
\* errorRetryCount, adds an explanatory message to the State and returns
\* ActionRetry (and no other Post returns it); the Post that follows the
\* third consecutive ActionRetry returns ActionFailure and leaves the
\* counter 0; and the counter is 0 whenever Post returns ActionSuccess.
C39_AtMostThreeRetriesInARow ==
    /\ TrailingRetries(chat.returned) <= 3
    /\ PostReturned =>
        /\ chat.parsed = "error" <=> chat.action = ActionRetry
        /\ chat.parsed = "error" =>
            /\ chat.errorRetryCount = chat.before + 1
            /\ chat.added = <<"failed", "explanation">>
            /\ SubSeq(chat.messages, Len(chat.messages) - 1, Len(chat.messages)) = chat.added
        /\ TrailingRetries(ReturnedBefore) = 3 =>
            /\ chat.action = ActionFailure
            /\ chat.errorRetryCount = 0
        /\ chat.action = ActionSuccess => chat.errorRetryCount = 0

\* A Success, then three parse failures in a row and the Post after them:
\* ActionFailure, the counter back at 0 from 3.
C39_Witness ==
    /\ PostReturned
    /\ chat.returned = <<ActionSuccess, ActionRetry, ActionRetry, ActionRetry, ActionFailure>>
    /\ chat.before = 3
    /\ chat.errorRetryCount = 0

====
